---- MODULE Spec2Model ----
(***************************************************************************)
(* A model of the Instacart feature pipeline of                            *)
(* dbt_feature_store_example_kaggle: the raw tables, the staging views,    *)
(* the intermediate metric models, the four core feature marts and the     *)
(* calculate_time_window_aggs macro.                                       *)
(*                                                                         *)
(* Tables are sets of records.  Raw rows are pairwise distinct (ORDERS by  *)
(* ORDER_ID, ORDER_PRODUCTS by ORDER_ID and ADD_TO_CART_ORDER), and a join *)
(* result keeps the columns of both sides that tell its rows apart, so a   *)
(* join that fans out yields several records with the same key.            *)
(*                                                                         *)
(* Beside the pipeline: setup_logger of the logging notebooks and          *)
(* InstacartDataLoader.load_data, whose tables (RAW_TABLES) are bags of    *)
(* the rows of the CSV files.                                              *)
(*                                                                         *)
(* Not modelled: stddev(), median() and mode() of user_metrics (they read  *)
(* the same filtered rows as the avg() columns beside them), and the name  *)
(* columns of the reference tables.                                        *)
(***************************************************************************)
EXTENDS Integers, FiniteSets, Sequences, Bags, TLC

\* ---------------------------------------------------------------- bounds
MaxOrders == 2
MaxLines == 2
MaxUsers == 2
MaxProducts == 2
MaxBaseRows == 2
MaxRuns == 2
MaxLoads == 3
ScenarioOrders == 5

\* ------------------------------------------------------ dbt_project.yml vars
min_orders == 4

\* ------------------------------------------------------------ SQL values
\* SQL NULL of an integer column.  Every integer the model stores is >= 0.
NULL == 0 - 1

\* A decimal (the result of "/" or avg()) is a fraction n/d with d > 0.
\* RNULL is the SQL NULL of a decimal column.  RERR marks a division by a
\* non-null zero: Snowflake raises "Division by zero" and the statement fails.
Rat(n, d) == [n |-> n, d |-> d]
RNULL == [n |-> 0, d |-> 0]
RERR == [n |-> 1, d |-> 0]

\* nullif(x, 0) on an integer and on a decimal.
NullIfZero(x) == IF x = 0 THEN NULL ELSE x
RNullIfZero(x) == IF x.d # 0 /\ x.n = 0 THEN RNULL ELSE x

\* a / b on integers: a NULL operand gives NULL, a zero divisor fails.
IntDiv(a, b) ==
    IF a = NULL \/ b = NULL THEN RNULL ELSE IF b = 0 THEN RERR ELSE Rat(a, b)
\* x / y on decimals.
RatDiv(x, y) ==
    IF x.d = 0 \/ y.d = 0 THEN RNULL
    ELSE IF y.n = 0 THEN RERR ELSE Rat(x.n * y.d, x.d * y.n)
\* integer / decimal.
IntRatDiv(a, y) == IF a = NULL THEN RNULL ELSE RatDiv(Rat(a, 1), y)

\* x - y on integers and on decimals, NULL if either is.  A difference may be
\* negative, so it is kept as a decimal.
IntMinus(a, b) == IF a = NULL \/ b = NULL THEN RNULL ELSE Rat(a - b, 1)
RatMinus(x, y) == IF x.d = 0 \/ y.d = 0 THEN RNULL ELSE Rat(x.n * y.d - y.n * x.d, x.d * y.d)
Abs(a) == IF a < 0 THEN 0 - a ELSE a

\* ------------------------------------------------------------ aggregates
\* sum(col) over the rows T, NULLs skipped; 0 stands for the sum of no value
\* where the caller coalesces or the group is known to be non-empty.
RECURSIVE SumCol(_, _)
SumCol(T, c) ==
    IF T = {} THEN 0
    ELSE LET r == CHOOSE x \in T : TRUE
         IN  (IF r[c] = NULL THEN 0 ELSE r[c]) + SumCol(T \ {r}, c)

\* count(col): the rows whose col is not NULL.
CountCol(T, c) == Cardinality({r \in T : r[c] # NULL})

\* avg(col) over an integer column: NULL when no row has a value.
AvgCol(T, c) ==
    IF CountCol(T, c) = 0 THEN RNULL ELSE Rat(SumCol(T, c), CountCol(T, c))

\* sum of a decimal column, NULLs skipped.
RECURSIVE RSumCol(_, _)
RSumCol(T, c) ==
    IF T = {} THEN Rat(0, 1)
    ELSE LET r == CHOOSE x \in T : TRUE
             s == RSumCol(T \ {r}, c)
         IN  IF r[c].d = 0 THEN s ELSE Rat(r[c].n * s.d + s.n * r[c].d, r[c].d * s.d)

\* avg of a decimal column.
RAvgCol(T, c) ==
    LET n == Cardinality({r \in T : r[c].d # 0})
        s == RSumCol(T, c)
    IN  IF n = 0 THEN RNULL ELSE Rat(s.n, s.d * n)

\* max(col) / min(col), NULLs skipped, NULL when no row has a value.
MaxCol(T, c) ==
    LET V == {r[c] : r \in T} \ {NULL}
    IN  IF V = {} THEN NULL ELSE CHOOSE v \in V : \A w \in V : w <= v
MinCol(T, c) ==
    LET V == {r[c] : r \in T} \ {NULL}
    IN  IF V = {} THEN NULL ELSE CHOOSE v \in V : \A w \in V : v <= w

\* ------------------------------------------------------------ raw inputs
UserIds == 1..MaxUsers
ProductIds == 1..MaxProducts
AisleIds == {1}
DepartmentIds == {1}
\* ORDER_NUMBER is 1-based; the values around the min_orders threshold.
OrderNumbers == (min_orders - 1)..(min_orders + 1)
\* The (ORDER_DOW, ORDER_HOUR_OF_DAY) pairs orders are placed at.
TimeSlots == {<<0, 9>>, <<1, 14>>}
EvalSets == {"prior", "train"}

\* The PRODUCTS tables that pass the source tests: PRODUCT_ID unique and not
\* null; AISLE_ID and DEPARTMENT_ID pass the relationships tests, which skip
\* NULL foreign keys.  Product 1 is always fully classified.
ProductRow(p, a, d) == [PRODUCT_ID |-> p, AISLE_ID |-> a, DEPARTMENT_ID |-> d]
ProductChoices(p) ==
    IF p = 1 THEN {ProductRow(p, 1, 1)}
    ELSE {ProductRow(p, 1, 1), ProductRow(p, NULL, 1), ProductRow(p, 1, NULL)}
Catalogs ==
    {{f[p] : p \in ProductIds} :
        f \in {g \in [ProductIds -> UNION {ProductChoices(p) : p \in ProductIds}] :
                  \A p \in ProductIds : g[p] \in ProductChoices(p)}}

VARIABLES
    ORDERS,          \* raw table INSTACART_RAW.ORDERS
    ORDER_PRODUCTS,  \* raw table INSTACART_RAW.ORDER_PRODUCTS
    PRODUCTS,        \* raw table INSTACART_RAW.PRODUCTS
    AISLES,          \* raw table INSTACART_RAW.AISLES
    DEPARTMENTS,     \* raw table INSTACART_RAW.DEPARTMENTS
    pc,              \* "load": raw data is being loaded; "built": dbt build has run
    built,           \* the materialized models: name -> [status, rows]
    views,           \* the staging views: name -> status
    base_relation,   \* the relation calculate_time_window_aggs is called on
    current_date,    \* the day number current_date() returns
    window_aggs,     \* the result of the last calculate_time_window_aggs
    project_vars,    \* the vars of dbt_project.yml the run is configured with
    dbt_runs,        \* the number of dbt builds that have ended
    loggers,         \* logging.getLogger(name): name -> [level, handlers]
    last_call,       \* the arguments of the last setup_logger call of each name
    csv_files,       \* the rows of the CSV files in data_path
    RAW_TABLES,      \* the tables load_data writes: name -> bag of rows
    load_runs        \* the number of load_data calls that have ended

pipeline_vars == <<ORDERS, ORDER_PRODUCTS, PRODUCTS, AISLES, DEPARTMENTS, pc, built,
                   views, project_vars, dbt_runs>>
window_vars == <<base_relation, current_date, window_aggs>>
python_vars == <<loggers, last_call, csv_files, RAW_TABLES, load_runs>>
vars == <<pipeline_vars, window_vars, python_vars>>

\* vars: of dbt_project.yml, and var("eval_set", "prior") of the models.
DefaultProjectVars == [eval_set |-> "prior", time_windows |-> {7, 30, 90}]
eval_set == project_vars.eval_set

\* ---------------------------------------------------------------- staging
stg_instacart__orders(O) ==
    {[order_id |-> r.ORDER_ID, user_id |-> r.USER_ID, order_number |-> r.ORDER_NUMBER,
      order_dow |-> r.ORDER_DOW, order_hour_of_day |-> r.ORDER_HOUR_OF_DAY,
      days_since_prior_order |-> r.DAYS_SINCE_PRIOR_ORDER, eval_set |-> r.EVAL_SET] : r \in O}

stg_instacart__order_products(OP) ==
    {[order_id |-> r.ORDER_ID, product_id |-> r.PRODUCT_ID,
      cart_position |-> r.ADD_TO_CART_ORDER, is_reordered |-> r.REORDERED] : r \in OP}

stg_instacart__products(P) ==
    {[product_id |-> r.PRODUCT_ID, aisle_id |-> r.AISLE_ID,
      department_id |-> r.DEPARTMENT_ID] : r \in P}

stg_instacart__aisles(A) == {[aisle_id |-> r.AISLE_ID] : r \in A}

stg_instacart__departments(D) == {[department_id |-> r.DEPARTMENT_ID] : r \in D}

\* The CTE every model opens with: the orders of the configured partition.
orders_unfiltered(o) == o

orders_of_eval_set(o) == {r \in o : r.eval_set = eval_set}

\* A model's outcome in one dbt build.
Success(rows) == [status |-> "success", rows |-> rows]
Failed == [status |-> "error", rows |-> {}]
Skipped == [status |-> "skipped", rows |-> {}]
Pending == [status |-> "pending", rows |-> {}]
\* The statement of a model fails when one of its divisions does.
Materialize(rows, decimals) ==
    IF \E r \in rows, c \in decimals : r[c] = RERR THEN Failed ELSE Success(rows)

\* ------------------------------------- int_instacart__user_order_metrics
\* orders left join order_products, grouped by the order's columns.
orders_joined(o, op) ==
    {LET lines == {l \in op : l.order_id = r.order_id}
     IN  [order_id |-> r.order_id, user_id |-> r.user_id,
          order_number |-> r.order_number, order_dow |-> r.order_dow,
          order_hour_of_day |-> r.order_hour_of_day,
          days_since_prior_order |-> r.days_since_prior_order,
          basket_size |-> CountCol(lines, "product_id"),
          reordered_items |-> Cardinality({l \in lines : l.is_reordered = 1})]
     : r \in orders_of_eval_set(o)}

\* where order_number >= min_orders
user_metrics_input(oj) == {r \in oj : r.order_number >= min_orders}

\* The group of one user in user_metrics.
user_metrics_row(u, G) ==
    [user_id |-> u,
     user_total_orders |-> MaxCol(G, "order_number"),
     avg_days_between_orders |-> AvgCol(G, "days_since_prior_order"),
     avg_order_hour |-> AvgCol(G, "order_hour_of_day"),
     avg_basket_size |-> AvgCol(G, "basket_size"),
     total_items_ordered |-> SumCol(G, "basket_size"),
     total_orders |-> Cardinality({r.order_id : r \in G}),
     overall_reorder_rate |-> IntDiv(SumCol(G, "reordered_items"), SumCol(G, "basket_size"))]

user_metrics(oj) ==
    {user_metrics_row(u, {r \in user_metrics_input(oj) : r.user_id = u})
     : u \in {r.user_id : r \in user_metrics_input(oj)}}

int_instacart__user_order_metrics(o, op) ==
    LET oj == orders_joined(o, op)
    IN  Materialize(user_metrics(oj), {"overall_reorder_rate"})

\* ---------------------------------------- int_instacart__product_metrics
\* order_products inner join orders inner join products
product_metrics_input(o, op, p) ==
    {[order_id |-> l.order_id, product_id |-> l.product_id,
      cart_position |-> l.cart_position, is_reordered |-> l.is_reordered,
      aisle_id |-> pr.aisle_id, department_id |-> pr.department_id]
     : <<l, pr>> \in {x \in op \X p :
            /\ x[1].product_id = x[2].product_id
            /\ \E r \in orders_of_eval_set(o) : r.order_id = x[1].order_id}}

\* product_metrics_row counting in product_orders only the orders that
\* bought the product for the first time.
product_metrics_row_first_orders(k, G) ==
    [product_id |-> k[1], aisle_id |-> k[2], department_id |-> k[3],
     product_orders |-> Cardinality({r.order_id : r \in {x \in G : x.is_reordered = 0}}),
     product_reorders |-> Cardinality({r \in G : r.is_reordered = 1}),
     product_reorder_rate |->
        IntDiv(Cardinality({r \in G : r.is_reordered = 1}),
               Cardinality({r.order_id : r \in {x \in G : x.is_reordered = 0}})),
     product_avg_cart_position |-> AvgCol(G, "cart_position")]

product_metrics_row(k, G) ==
    [product_id |-> k[1], aisle_id |-> k[2], department_id |-> k[3],
     product_orders |-> Cardinality({r.order_id : r \in G}),
     product_reorders |-> Cardinality({r \in G : r.is_reordered = 1}),
     product_reorder_rate |->
        IntDiv(Cardinality({r \in G : r.is_reordered = 1}),
               Cardinality({r.order_id : r \in G})),
     product_avg_cart_position |-> AvgCol(G, "cart_position")]

product_metrics(J) ==
    {product_metrics_row(k, {x \in J : <<x.product_id, x.aisle_id, x.department_id>> = k})
     : k \in {<<r.product_id, r.aisle_id, r.department_id>> : r \in J}}

int_instacart__product_metrics(o, op, p) ==
    LET J == product_metrics_input(o, op, p)
    IN  Materialize(product_metrics(J), {"product_reorder_rate"})

\* ----------------------------------- int_instacart__user_product_metrics
\* orders inner join order_products
user_orders(o, op) ==
    {[user_id |-> r.user_id, order_id |-> r.order_id, order_number |-> r.order_number,
      order_dow |-> r.order_dow, order_hour_of_day |-> r.order_hour_of_day,
      product_id |-> l.product_id, cart_position |-> l.cart_position,
      is_reordered |-> l.is_reordered]
     : <<r, l>> \in {x \in orders_of_eval_set(o) \X op : x[1].order_id = x[2].order_id}}

user_product_metrics_row(k, G) ==
    [user_id |-> k[1], product_id |-> k[2],
     up_orders |-> Cardinality({r.order_id : r \in G}),
     up_last_order_id |-> MaxCol(G, "order_number"),
     up_sum_pos_in_cart |-> SumCol(G, "cart_position"),
     up_avg_cart_position |-> AvgCol(G, "cart_position"),
     up_last_order_hour |-> MaxCol(G, "order_hour_of_day"),
     up_orders_ratio |->
        IntDiv(Cardinality({r.order_id : r \in G}), NullIfZero(MaxCol(G, "order_number"))),
     up_orders_since_last |-> MaxCol(G, "order_number"),
     up_delta_hour_vs_last |->
        Abs(MaxCol(G, "order_hour_of_day") - MinCol(G, "order_hour_of_day"))]

user_product_metrics(uo) ==
    {user_product_metrics_row(k, {x \in uo : <<x.user_id, x.product_id>> = k})
     : k \in {<<r.user_id, r.product_id>> : r \in uo}}

int_instacart__user_product_metrics(o, op) ==
    Materialize(user_product_metrics(user_orders(o, op)), {"up_orders_ratio"})

\* ------------------------------------------------------- window functions
\* No ORDER BY of the models names a tiebreak column.  Rows that tie on the
\* ORDER BY key come out in an order the engine picks: ascending or
\* descending in the row's identifying column.
ScanOrders == {"asc", "desc"}
TieBefore(a, b, scan) == IF scan = "asc" THEN a < b ELSE a > b

\* row_number() over (partition ... order by key desc) of row r in its
\* partition part; id names the column that identifies a row of part.
RowNumberDesc(r, part, key, id, scan) ==
    1 + Cardinality({s \in part :
            \/ s[key] > r[key]
            \/ s[key] = r[key] /\ TieBefore(s[id], r[id], scan)})

\* row_number() over (partition ... order by key)
RowNumberAsc(r, part, key, id, scan) ==
    1 + Cardinality({s \in part :
            \/ s[key] < r[key]
            \/ s[key] = r[key] /\ TieBefore(s[id], r[id], scan)})

\* ------------------------------------------------ instacart__user_features
last_orders(o, scan) ==
    LET po == {r \in o : r.eval_set = eval_set}
    IN  {[user_id |-> r.user_id, order_id |-> r.order_id, order_number |-> r.order_number,
          order_dow |-> r.order_dow, order_hour_of_day |-> r.order_hour_of_day,
          days_since_prior_order |-> r.days_since_prior_order,
          rn |-> RowNumberDesc(r, {s \in po : s.user_id = r.user_id},
                               "order_number", "order_id", scan)]
         : r \in po}

\* last_order_per_user without "where rn = 1".
last_order_per_user_all_rows(lo) == lo

last_order_per_user(lo) == {r \in lo : r.rn = 1}

\* user_order_lines without its where clause.
user_order_lines_any_eval_set(o, op) ==
    {[user_id |-> r.user_id, order_id |-> r.order_id, product_id |-> l.product_id,
      cart_position |-> l.cart_position, is_reordered |-> l.is_reordered]
     : <<r, l>> \in {x \in o \X op : x[1].order_id = x[2].order_id}}

\* orders inner join order_products where eval_set = the configured one
user_order_lines(o, op) ==
    {[user_id |-> r.user_id, order_id |-> r.order_id, product_id |-> l.product_id,
      cart_position |-> l.cart_position, is_reordered |-> l.is_reordered]
     : <<r, l>> \in {x \in {r \in o : r.eval_set = eval_set} \X op :
                        x[1].order_id = x[2].order_id}}

distinct_products(o, op) ==
    LET J == user_order_lines(o, op)
    IN  {[user_id |-> u,
          distinct_products_count |->
              Cardinality({r.product_id : r \in {x \in J : x.user_id = u}} \ {NULL})]
         : u \in {r.user_id : r \in J}}

reorder_stats(o, op) ==
    LET J == user_order_lines(o, op)
    IN  {LET G == {x \in J : x.user_id = u}
         IN  [user_id |-> u,
              total_reordered_products |-> SumCol(G, "is_reordered"),
              reorder_rate |->
                  IntDiv(SumCol(G, "is_reordered"), NullIfZero(CountCol(G, "product_id")))]
         : u \in {r.user_id : r \in J}}

user_features_final(um, dp, rs, lo) ==
    {[user_id |-> x[1].user_id,
      user_total_orders |-> x[1].user_total_orders,
      avg_days_between_orders |-> x[1].avg_days_between_orders,
      avg_order_hour |-> x[1].avg_order_hour,
      avg_basket_size |-> x[1].avg_basket_size,
      total_items_ordered |-> x[1].total_items_ordered,
      distinct_products_count |-> x[2].distinct_products_count,
      avg_unique_products_per_order |->
          IntDiv(x[2].distinct_products_count, NullIfZero(x[1].total_orders)),
      total_reordered_products |-> x[3].total_reordered_products,
      reorder_rate |-> x[3].reorder_rate,
      last_order_dow |-> x[4].order_dow,
      last_order_hour |-> x[4].order_hour_of_day,
      last_order_days_since_prior |-> x[4].days_since_prior_order,
      \* not a column: the joined last_orders row, which tells apart the rows
      \* a fanning join would repeat
      src_last_order |-> x[4].order_id]
     : x \in {y \in um \X dp \X rs \X lo :
                /\ y[1].user_id = y[2].user_id
                /\ y[1].user_id = y[3].user_id
                /\ y[1].user_id = y[4].user_id}}

instacart__user_features(user_order_metrics, o, op, scan) ==
    IF user_order_metrics.status # "success" THEN Skipped
    ELSE Materialize(
            user_features_final(user_order_metrics.rows, distinct_products(o, op),
                reorder_stats(o, op), last_order_per_user(last_orders(o, scan))),
            {"avg_unique_products_per_order", "reorder_rate"})

\* --------------------------------------------- instacart__product_features
department_rankings(pm, scan) ==
    {[product_id |-> r.product_id, department_id |-> r.department_id,
      product_orders |-> r.product_orders,
      department_popularity_rank |->
          RowNumberDesc(r, {s \in pm : s.department_id = r.department_id},
                        "product_orders", "product_id", scan)]
     : r \in pm}

aisle_rankings(pm, scan) ==
    {[product_id |-> r.product_id, aisle_id |-> r.aisle_id,
      product_orders |-> r.product_orders,
      aisle_popularity_rank |->
          RowNumberDesc(r, {s \in pm : s.aisle_id = r.aisle_id},
                        "product_orders", "product_id", scan)]
     : r \in pm}

\* order_products inner join orders where eval_set = the configured one
product_order_lines(o, op) ==
    {[product_id |-> l.product_id, order_id |-> l.order_id,
      cart_position |-> l.cart_position,
      order_hour_of_day |-> r.order_hour_of_day, order_dow |-> r.order_dow]
     : <<l, r>> \in {x \in op \X {r \in o : r.eval_set = eval_set} :
                        x[1].order_id = x[2].order_id}}

\* group by product_id, order_hour_of_day; count(*); row_number() by count desc
product_hour_counts(o, op, scan) ==
    LET J == product_order_lines(o, op)
        C == {[product_id |-> k[1], peak_hour |-> k[2],
               orders_in_hour |-> Cardinality({x \in J :
                    x.product_id = k[1] /\ x.order_hour_of_day = k[2]})]
              : k \in {<<r.product_id, r.order_hour_of_day>> : r \in J}}
    IN  {[product_id |-> c.product_id, peak_hour |-> c.peak_hour,
          orders_in_hour |-> c.orders_in_hour,
          rn |-> RowNumberDesc(c, {d \in C : d.product_id = c.product_id},
                               "orders_in_hour", "peak_hour", scan)]
         : c \in C}

\* product_peak_hours without "qualify rn = 1".
product_peak_hours_unqualified(o, op, scan) == product_hour_counts(o, op, scan)

\* qualify rn = 1
product_peak_hours(o, op, scan) == {r \in product_hour_counts(o, op, scan) : r.rn = 1}

product_day_counts(o, op, scan) ==
    LET J == product_order_lines(o, op)
        C == {[product_id |-> k[1], peak_day |-> k[2],
               orders_in_day |-> Cardinality({x \in J :
                    x.product_id = k[1] /\ x.order_dow = k[2]})]
              : k \in {<<r.product_id, r.order_dow>> : r \in J}}
    IN  {[product_id |-> c.product_id, peak_day |-> c.peak_day,
          orders_in_day |-> c.orders_in_day,
          rn |-> RowNumberDesc(c, {d \in C : d.product_id = c.product_id},
                               "orders_in_day", "peak_day", scan)]
         : c \in C}

product_peak_days(o, op, scan) == {r \in product_day_counts(o, op, scan) : r.rn = 1}

department_stats(pm) ==
    {LET G == {x \in pm : x.department_id = d}
     IN  [department_id |-> d,
          avg_dept_orders |-> AvgCol(G, "product_orders"),
          avg_dept_reorder_rate |-> RAvgCol(G, "product_reorder_rate")]
     : d \in {r.department_id : r \in pm}}

\* pm.product_reorder_rate / ds.avg_dept_reorder_rate, without the nullif.
department_reorder_ratio_no_nullif(rate, avg) == RatDiv(rate, avg)

\* pm.product_reorder_rate / nullif(ds.avg_dept_reorder_rate, 0)
department_reorder_ratio(rate, avg) == RatDiv(rate, RNullIfZero(avg))

\* pm.product_orders / nullif(ds.avg_dept_orders, 0)
department_order_ratio(orders, avg) == IntRatDiv(orders, RNullIfZero(avg))

\* The rows a left join adds to one left row: the matches, or one all-NULL row.
LeftJoin(matches, nullrow) == IF matches = {} THEN {nullrow} ELSE matches

\* products p join product_metrics, aisles, departments, department_rankings,
\* aisle_rankings, department_stats (inner), peak hours and peak days (left).
\* "=" on a NULL key never matches.
product_features_final(p, pm, a, d, dr, ar, ds, pph, ppd) ==
    {[product_id |-> x[1].product_id,
      aisle_id |-> x[3].aisle_id,
      department_id |-> x[4].department_id,
      product_orders |-> x[2].product_orders,
      product_reorders |-> x[2].product_reorders,
      product_reorder_rate |-> x[2].product_reorder_rate,
      product_avg_cart_position |-> x[2].product_avg_cart_position,
      department_popularity_rank |-> x[5].department_popularity_rank,
      aisle_popularity_rank |-> x[6].aisle_popularity_rank,
      peak_hour |-> x[8].peak_hour,
      peak_day |-> x[9].peak_day,
      department_order_ratio |->
          department_order_ratio(x[2].product_orders, x[7].avg_dept_orders),
      department_reorder_ratio |->
          department_reorder_ratio(x[2].product_reorder_rate, x[7].avg_dept_reorder_rate)]
     : x \in UNION {
         {<<r, m, ja, jd, jr, jar, js, jh, jy>> :
            m \in {y \in pm : y.product_id = r.product_id},
            ja \in {y \in a : r.aisle_id # NULL /\ y.aisle_id = r.aisle_id},
            jd \in {y \in d : r.department_id # NULL /\ y.department_id = r.department_id},
            jr \in {y \in dr : y.product_id = r.product_id},
            jar \in {y \in ar : y.product_id = r.product_id},
            js \in {y \in ds : r.department_id # NULL /\ y.department_id = r.department_id},
            jh \in LeftJoin({y \in pph : y.product_id = r.product_id}, [peak_hour |-> NULL]),
            jy \in LeftJoin({y \in ppd : y.product_id = r.product_id}, [peak_day |-> NULL])}
         : r \in p}}

instacart__product_features(product_metrics_model, p, a, d, o, op, scan) ==
    IF product_metrics_model.status # "success" THEN Skipped
    ELSE LET pm == product_metrics_model.rows
         IN  Materialize(
                product_features_final(p, pm, a, d, department_rankings(pm, scan),
                    aisle_rankings(pm, scan), department_stats(pm),
                    product_peak_hours(o, op, scan), product_peak_days(o, op, scan)),
                {"department_order_ratio", "department_reorder_ratio"})

\* order_metrics grouped by the order line's product as well.
order_metrics_by_line(o, op) ==
    {LET lines == {l \in op : l.order_id = x[1].order_id /\ l.product_id = x[2]}
         reordered == Cardinality({l \in lines : l.is_reordered = 1})
     IN  [order_id |-> x[1].order_id, user_id |-> x[1].user_id,
          order_number |-> x[1].order_number, order_dow |-> x[1].order_dow,
          order_hour_of_day |-> x[1].order_hour_of_day,
          days_since_prior_order |-> x[1].days_since_prior_order,
          basket_size |-> CountCol(lines, "product_id"),
          num_reordered_items |-> reordered,
          reorder_ratio |-> IntDiv(reordered, NullIfZero(CountCol(lines, "product_id"))),
          avg_cart_position |-> AvgCol(lines, "cart_position"),
          min_cart_position |-> MinCol(lines, "cart_position"),
          max_cart_position |-> MaxCol(lines, "cart_position")]
     : x \in {y \in orders_of_eval_set(o) \X ({l.product_id : l \in op} \cup {NULL}) :
                \/ \E l \in op : l.order_id = y[1].order_id /\ l.product_id = y[2]
                \/ y[2] = NULL /\ ~ \E l \in op : l.order_id = y[1].order_id}}

\* ----------------------------------------------- instacart__order_features
\* order_metrics with an inner join in place of the left join.
order_metrics_inner_join(o, op) ==
    {LET lines == {l \in op : l.order_id = r.order_id}
         reordered == Cardinality({l \in lines : l.is_reordered = 1})
     IN  [order_id |-> r.order_id, user_id |-> r.user_id,
          order_number |-> r.order_number, order_dow |-> r.order_dow,
          order_hour_of_day |-> r.order_hour_of_day,
          days_since_prior_order |-> r.days_since_prior_order,
          basket_size |-> CountCol(lines, "product_id"),
          num_reordered_items |-> reordered,
          reorder_ratio |-> IntDiv(reordered, NullIfZero(CountCol(lines, "product_id"))),
          avg_cart_position |-> AvgCol(lines, "cart_position"),
          min_cart_position |-> MinCol(lines, "cart_position"),
          max_cart_position |-> MaxCol(lines, "cart_position")]
     : r \in {t \in orders_of_eval_set(o) : \E l \in op : l.order_id = t.order_id}}

\* orders left join order_products, grouped by the order's columns.
order_metrics(o, op) ==
    {LET lines == {l \in op : l.order_id = r.order_id}
         reordered == Cardinality({l \in lines : l.is_reordered = 1})
     IN  [order_id |-> r.order_id, user_id |-> r.user_id,
          order_number |-> r.order_number, order_dow |-> r.order_dow,
          order_hour_of_day |-> r.order_hour_of_day,
          days_since_prior_order |-> r.days_since_prior_order,
          basket_size |-> CountCol(lines, "product_id"),
          num_reordered_items |-> reordered,
          reorder_ratio |-> IntDiv(reordered, NullIfZero(CountCol(lines, "product_id"))),
          avg_cart_position |-> AvgCol(lines, "cart_position"),
          min_cart_position |-> MinCol(lines, "cart_position"),
          max_cart_position |-> MaxCol(lines, "cart_position")]
     : r \in orders_of_eval_set(o)}

\* lead() in place of lag(): the row that follows r.
LagRows_lead(r, part, scan) ==
    {s \in part : RowNumberAsc(s, part, "order_number", "order_id", scan)
                    = RowNumberAsc(r, part, "order_number", "order_id", scan) + 1}

\* lag(...) over (partition by user_id order by order_number): the row that
\* precedes r among its user's orders, if any.
LagRows(r, part, scan) ==
    {s \in part : RowNumberAsc(s, part, "order_number", "order_id", scan)
                    = RowNumberAsc(r, part, "order_number", "order_id", scan) - 1}

\* orders inner join order_metrics on order_id
prev_order_metrics(o, om, scan) ==
    {LET part == {s \in orders_of_eval_set(o) : s.user_id = x[1].user_id}
         prev == LagRows(x[1], part, scan)
         prevm == {m \in om : \E s \in prev : m.order_id = s.order_id}
     IN  [user_id |-> x[1].user_id, order_number |-> x[1].order_number,
          order_id |-> x[1].order_id,
          prev_basket_size |-> IF prevm = {} THEN NULL
                               ELSE (CHOOSE m \in prevm : TRUE).basket_size,
          prev_reorder_ratio |-> IF prevm = {} THEN RNULL
                                 ELSE (CHOOSE m \in prevm : TRUE).reorder_ratio,
          prev_order_dow |-> IF prev = {} THEN NULL
                             ELSE (CHOOSE s \in prev : TRUE).order_dow,
          prev_order_hour |-> IF prev = {} THEN NULL
                              ELSE (CHOOSE s \in prev : TRUE).order_hour_of_day]
     : x \in {y \in orders_of_eval_set(o) \X om : y[1].order_id = y[2].order_id}}

\* orders join order_products join products, grouped by order_id
product_diversity(o, op, p) ==
    LET J == {[order_id |-> x[1].order_id, aisle_id |-> x[3].aisle_id,
               department_id |-> x[3].department_id]
              : x \in {y \in orders_of_eval_set(o) \X op \X p :
                        /\ y[1].order_id = y[2].order_id
                        /\ y[2].product_id = y[3].product_id}}
    IN  {[order_id |-> i,
          unique_aisles |-> Cardinality({r.aisle_id : r \in {y \in J : y.order_id = i}} \ {NULL}),
          unique_departments |->
              Cardinality({r.department_id : r \in {y \in J : y.order_id = i}} \ {NULL})]
         : i \in {r.order_id : r \in J}}

DayPart(h) ==
    IF h >= 5 /\ h <= 9 THEN "morning"
    ELSE IF h >= 10 /\ h <= 14 THEN "midday"
    ELSE IF h >= 15 /\ h <= 19 THEN "evening"
    ELSE "night"

order_features_final(om, pom, pd) ==
    {[order_id |-> m.order_id, user_id |-> m.user_id, order_number |-> m.order_number,
      order_dow |-> m.order_dow, order_hour_of_day |-> m.order_hour_of_day,
      days_since_prior_order |-> m.days_since_prior_order,
      basket_size |-> m.basket_size,
      num_reordered_items |-> m.num_reordered_items,
      reorder_ratio |-> m.reorder_ratio,
      avg_cart_position |-> m.avg_cart_position,
      min_cart_position |-> m.min_cart_position,
      max_cart_position |-> m.max_cart_position,
      unique_aisles |-> x[3].unique_aisles,
      unique_departments |-> x[3].unique_departments,
      aisle_diversity_ratio |-> IntDiv(x[3].unique_aisles, NullIfZero(m.basket_size)),
      department_diversity_ratio |->
          IntDiv(x[3].unique_departments, NullIfZero(m.basket_size)),
      basket_size_delta |-> IntMinus(m.basket_size, x[2].prev_basket_size),
      reorder_ratio_delta |-> RatMinus(m.reorder_ratio, x[2].prev_reorder_ratio),
      same_day_as_last_order |->
          IF x[2].prev_order_dow # NULL /\ Abs(m.order_dow - x[2].prev_order_dow) = 0
          THEN 1 ELSE 0,
      similar_hour_as_last_order |->
          IF x[2].prev_order_hour # NULL /\ Abs(m.order_hour_of_day - x[2].prev_order_hour) <= 3
          THEN 1 ELSE 0,
      day_part |-> DayPart(m.order_hour_of_day)]
     : <<m, x>> \in UNION {
         {<<r, <<r, jp, jd>>>> :
            jp \in LeftJoin({y \in pom : y.order_id = r.order_id},
                            [prev_basket_size |-> NULL, prev_reorder_ratio |-> RNULL,
                             prev_order_dow |-> NULL, prev_order_hour |-> NULL]),
            jd \in LeftJoin({y \in pd : y.order_id = r.order_id},
                            [unique_aisles |-> NULL, unique_departments |-> NULL])}
         : r \in om}}

instacart__order_features(o, op, p, scan) ==
    LET om == order_metrics(o, op)
    IN  Materialize(
            order_features_final(om, prev_order_metrics(o, om, scan),
                                 product_diversity(o, op, p)),
            {"reorder_ratio", "aisle_diversity_ratio", "department_diversity_ratio"})

\* ---------------------------------------- instacart__user_product_features
\* concat(user_id, '_', product_id): the decimal digits of both numbers.
DigitChars == <<"0", "1", "2", "3", "4", "5", "6", "7", "8", "9">>
RECURSIVE ToVarchar(_)
ToVarchar(n) ==
    IF n < 10 THEN <<DigitChars[n + 1]>>
    ELSE ToVarchar(n \div 10) \o <<DigitChars[(n % 10) + 1]>>
Concat(u, p) == ToVarchar(u) \o <<"_">> \o ToVarchar(p)

\* select product_id, product_orders, product_reorder_rate from
\* instacart__product_features.  src is not a column: it keeps apart the
\* rows of product_features that the projection makes equal.
product_features_cte(pf) ==
    {[product_id |-> r.product_id, product_orders |-> r.product_orders,
      product_reorder_rate |-> r.product_reorder_rate,
      src |-> <<r.aisle_id, r.department_id, r.department_popularity_rank,
                r.aisle_popularity_rank, r.peak_hour, r.peak_day>>]
     : r \in pf}

\* select user_id, avg_basket_size from user_features
user_avg_stats(uf) ==
    {[user_id |-> r.user_id, avg_basket_size |-> r.avg_basket_size,
      src |-> r.src_last_order] : r \in uf}

\* orders inner join order_products, numbered per (user, product) by
\* order_number desc.  line_no identifies the joined row.
user_product_recency(o, op, scan) ==
    LET J == {[user_id |-> x[1].user_id, product_id |-> x[2].product_id,
               order_number |-> x[1].order_number,
               line_no |-> x[1].order_id * (MaxLines + 1) + x[2].cart_position]
              : x \in {y \in orders_of_eval_set(o) \X op : y[1].order_id = y[2].order_id}}
    IN  {[user_id |-> r.user_id, product_id |-> r.product_id,
          order_number |-> r.order_number,
          rn |-> RowNumberDesc(r, {s \in J : s.user_id = r.user_id
                                              /\ s.product_id = r.product_id},
                               "order_number", "line_no", scan)]
         : r \in J}

\* last_purchase without "where rn = 1".
last_purchase_every_order(upr) ==
    {[user_id |-> r.user_id, product_id |-> r.product_id,
      last_purchase_order_number |-> r.order_number] : r \in upr}

last_purchase(upr) ==
    {[user_id |-> r.user_id, product_id |-> r.product_id,
      last_purchase_order_number |-> r.order_number] : r \in {x \in upr : x.rn = 1}}

\* user_product_time_patterns with the night bucket opening after 20:00.
user_product_time_patterns_night_after_20(o, op) ==
    LET J == user_orders(o, op)
    IN  {LET G == {x \in J : x.user_id = k[1] /\ x.product_id = k[2]}
         IN  [user_id |-> k[1], product_id |-> k[2],
              dow_purchases |->
                  [w \in 0..6 |-> Cardinality({x \in G : x.order_dow = w})],
              morning_purchases |->
                  Cardinality({x \in G : x.order_hour_of_day >= 5 /\ x.order_hour_of_day <= 9}),
              midday_purchases |->
                  Cardinality({x \in G : x.order_hour_of_day >= 10 /\ x.order_hour_of_day <= 14}),
              evening_purchases |->
                  Cardinality({x \in G : x.order_hour_of_day >= 15 /\ x.order_hour_of_day <= 19}),
              night_purchases |->
                  Cardinality({x \in G : x.order_hour_of_day > 20 \/ x.order_hour_of_day < 5})]
         : k \in {<<r.user_id, r.product_id>> : r \in J}}

user_product_time_patterns(o, op) ==
    LET J == user_orders(o, op)
    IN  {LET G == {x \in J : x.user_id = k[1] /\ x.product_id = k[2]}
         IN  [user_id |-> k[1], product_id |-> k[2],
              dow_purchases |->
                  [w \in 0..6 |-> Cardinality({x \in G : x.order_dow = w})],
              morning_purchases |->
                  Cardinality({x \in G : x.order_hour_of_day >= 5 /\ x.order_hour_of_day <= 9}),
              midday_purchases |->
                  Cardinality({x \in G : x.order_hour_of_day >= 10 /\ x.order_hour_of_day <= 14}),
              evening_purchases |->
                  Cardinality({x \in G : x.order_hour_of_day >= 15 /\ x.order_hour_of_day <= 19}),
              night_purchases |->
                  Cardinality({x \in G : x.order_hour_of_day >= 20 \/ x.order_hour_of_day < 5})]
         : k \in {<<r.user_id, r.product_id>> : r \in J}}

\* user_product_metrics inner join user_avg_stats inner join product_features
user_product_normalized(upm, uas, pfc) ==
    {[user_id |-> x[1].user_id, product_id |-> x[1].product_id,
      up_orders |-> x[1].up_orders,
      user_relative_frequency |->
          IntRatDiv(x[1].up_orders, RNullIfZero(x[2].avg_basket_size)),
      product_relative_frequency |->
          IntDiv(x[1].up_orders, NullIfZero(x[3].product_orders)),
      relative_cart_position |->
          RatDiv(x[1].up_avg_cart_position, RNullIfZero(x[2].avg_basket_size)),
      src |-> <<x[2].src, x[3].src>>]
     : x \in {y \in upm \X uas \X pfc :
                /\ y[1].user_id = y[2].user_id
                /\ y[1].product_id = y[3].product_id}}

Greatest(S) == CHOOSE v \in S : \A w \in S : w <= v

\* dominant_day_parts with the when branches in the opposite order.
dominant_day_parts_last_listed(uptp) ==
    {LET g == Greatest({r.morning_purchases, r.midday_purchases,
                        r.evening_purchases, r.night_purchases})
     IN  [user_id |-> r.user_id, product_id |-> r.product_id,
          dominant_day_part |->
              IF g = r.night_purchases THEN "night"
              ELSE IF g = r.evening_purchases THEN "evening"
              ELSE IF g = r.midday_purchases THEN "midday"
              ELSE "morning"]
     : r \in uptp}

\* case greatest(morning, midday, evening, night) when morning then ... end
dominant_day_parts(uptp) ==
    {LET g == Greatest({r.morning_purchases, r.midday_purchases,
                        r.evening_purchases, r.night_purchases})
     IN  [user_id |-> r.user_id, product_id |-> r.product_id,
          dominant_day_part |->
              IF g = r.morning_purchases THEN "morning"
              ELSE IF g = r.midday_purchases THEN "midday"
              ELSE IF g = r.evening_purchases THEN "evening"
              ELSE "night"]
     : r \in uptp}

\* case greatest(dow_0, ..., dow_6) when dow_0 then 0 ... else 6 end
dominant_dows(uptp) ==
    {LET g == Greatest({r.dow_purchases[w] : w \in 0..6})
     IN  [user_id |-> r.user_id, product_id |-> r.product_id,
          dominant_dow |->
              IF \E w \in 0..5 : r.dow_purchases[w] = g
              THEN CHOOSE w \in 0..5 :
                      /\ r.dow_purchases[w] = g
                      /\ \A v \in 0..5 : r.dow_purchases[v] = g => w <= v
              ELSE 6]
     : r \in uptp}

NullTimePatterns ==
    [dow_purchases |-> [w \in 0..6 |-> NULL], morning_purchases |-> NULL,
     midday_purchases |-> NULL, evening_purchases |-> NULL, night_purchases |-> NULL]
NullNormalized ==
    [user_relative_frequency |-> RNULL, product_relative_frequency |-> RNULL,
     relative_cart_position |-> RNULL, src |-> <<>>]

user_product_features_final(upm, uf, pfc, lp, uptp, upn, ddp, dd) ==
    {[user_id |-> x[1].user_id,
      product_id |-> x[1].product_id,
      user_product_id |-> Concat(x[1].user_id, x[1].product_id),
      up_orders |-> x[1].up_orders,
      up_last_order_id |-> x[1].up_last_order_id,
      up_sum_pos_in_cart |-> x[1].up_sum_pos_in_cart,
      up_avg_cart_position |-> x[1].up_avg_cart_position,
      up_last_order_hour |-> x[1].up_last_order_hour,
      up_orders_ratio |-> x[1].up_orders_ratio,
      up_orders_since_last |-> x[1].up_orders_since_last,
      up_delta_hour_vs_last |-> x[1].up_delta_hour_vs_last,
      last_purchase_order_number |-> x[4].last_purchase_order_number,
      orders_since_last_purchase |->
          IntMinus(x[2].user_total_orders, x[4].last_purchase_order_number),
      dow_purchases |-> x[5].dow_purchases,
      morning_purchases |-> x[5].morning_purchases,
      midday_purchases |-> x[5].midday_purchases,
      evening_purchases |-> x[5].evening_purchases,
      night_purchases |-> x[5].night_purchases,
      dominant_day_part |-> x[7].dominant_day_part,
      dominant_dow |-> x[8].dominant_dow,
      user_relative_frequency |-> x[6].user_relative_frequency,
      product_relative_frequency |-> x[6].product_relative_frequency,
      relative_cart_position |-> x[6].relative_cart_position,
      \* not columns: the joined rows, which tell apart what a fanning join repeats
      src |-> <<x[2].src_last_order, x[3].src, x[6].src>>]
     : x \in UNION {
         {<<r, ju, jp, jl, jt, jn, jdp, jdd>> :
            ju \in {y \in uf : y.user_id = r.user_id},
            jp \in {y \in pfc : y.product_id = r.product_id},
            jl \in LeftJoin({y \in lp : y.user_id = r.user_id /\ y.product_id = r.product_id},
                            [last_purchase_order_number |-> NULL]),
            jt \in LeftJoin({y \in uptp : y.user_id = r.user_id /\ y.product_id = r.product_id},
                            NullTimePatterns),
            jn \in LeftJoin({y \in upn : y.user_id = r.user_id /\ y.product_id = r.product_id},
                            NullNormalized),
            jdp \in LeftJoin({y \in ddp : y.user_id = r.user_id /\ y.product_id = r.product_id},
                             [dominant_day_part |-> "NULL"]),
            jdd \in LeftJoin({y \in dd : y.user_id = r.user_id /\ y.product_id = r.product_id},
                             [dominant_dow |-> NULL])}
         : r \in upm}}

instacart__user_product_features(upm_model, uf_model, pf_model, o, op, scan) ==
    IF \/ upm_model.status # "success"
       \/ uf_model.status # "success"
       \/ pf_model.status # "success"
    THEN Skipped
    ELSE LET pfc == product_features_cte(pf_model.rows)
             uptp == user_product_time_patterns(o, op)
         IN  Materialize(
                user_product_features_final(upm_model.rows, uf_model.rows, pfc,
                    last_purchase(user_product_recency(o, op, scan)), uptp,
                    user_product_normalized(upm_model.rows,
                        user_avg_stats(uf_model.rows), pfc),
                    dominant_day_parts(uptp), dominant_dows(uptp)),
                {"user_relative_frequency", "product_relative_frequency",
                 "relative_cart_position"})

\* ------------------------------------------------------------- dbt build
StagingNames ==
    {"stg_instacart__orders", "stg_instacart__order_products",
     "stg_instacart__products", "stg_instacart__aisles", "stg_instacart__departments"}

ModelNames ==
    {"int_instacart__user_order_metrics", "int_instacart__product_metrics",
     "int_instacart__user_product_metrics", "instacart__user_features",
     "instacart__product_features", "instacart__order_features",
     "instacart__user_product_features"}

\* One run of every model over the raw tables, in dependency order; scan is
\* the order in which the engine numbers tied rows during this run.
DbtRun(O, OP, P, A, D, scan) ==
    LET o == stg_instacart__orders(O)
        op == stg_instacart__order_products(OP)
        p == stg_instacart__products(P)
        a == stg_instacart__aisles(A)
        d == stg_instacart__departments(D)
        uom == int_instacart__user_order_metrics(o, op)
        pm == int_instacart__product_metrics(o, op, p)
        upm == int_instacart__user_product_metrics(o, op)
        uf == instacart__user_features(uom, o, op, scan)
        pf == instacart__product_features(pm, p, a, d, o, op, scan)
    IN  [int_instacart__user_order_metrics |-> uom,
         int_instacart__product_metrics |-> pm,
         int_instacart__user_product_metrics |-> upm,
         instacart__user_features |-> uf,
         instacart__product_features |-> pf,
         instacart__order_features |-> instacart__order_features(o, op, p, scan),
         instacart__user_product_features |->
             instacart__user_product_features(upm, uf, pf, o, op, scan)]

\* The nodes of the project and what each reads: ref() names a model,
\* source() a raw table.
Nodes == StagingNames \cup ModelNames

Sources(m) ==
    CASE m = "stg_instacart__orders" -> {"ORDERS"}
      [] m = "stg_instacart__order_products" -> {"ORDER_PRODUCTS"}
      [] m = "stg_instacart__products" -> {"PRODUCTS"}
      [] m = "stg_instacart__aisles" -> {"AISLES"}
      [] m = "stg_instacart__departments" -> {"DEPARTMENTS"}
      [] OTHER -> {}

\* instacart__user_product_features without its ref to product_features.
Refs_without_product_features(m) ==
    CASE m = "int_instacart__user_order_metrics" ->
            {"stg_instacart__orders", "stg_instacart__order_products"}
      [] m = "int_instacart__product_metrics" ->
            {"stg_instacart__orders", "stg_instacart__order_products",
             "stg_instacart__products"}
      [] m = "int_instacart__user_product_metrics" ->
            {"stg_instacart__orders", "stg_instacart__order_products"}
      [] m = "instacart__user_features" ->
            {"int_instacart__user_order_metrics", "stg_instacart__orders",
             "stg_instacart__order_products"}
      [] m = "instacart__product_features" ->
            {"int_instacart__product_metrics", "stg_instacart__products",
             "stg_instacart__aisles", "stg_instacart__departments",
             "stg_instacart__order_products", "stg_instacart__orders"}
      [] m = "instacart__order_features" ->
            {"stg_instacart__orders", "stg_instacart__order_products",
             "stg_instacart__products"}
      [] m = "instacart__user_product_features" ->
            {"int_instacart__user_product_metrics", "stg_instacart__orders",
             "instacart__user_features", "stg_instacart__order_products"}
      [] OTHER -> {}

Refs(m) ==
    CASE m = "int_instacart__user_order_metrics" ->
            {"stg_instacart__orders", "stg_instacart__order_products"}
      [] m = "int_instacart__product_metrics" ->
            {"stg_instacart__orders", "stg_instacart__order_products",
             "stg_instacart__products"}
      [] m = "int_instacart__user_product_metrics" ->
            {"stg_instacart__orders", "stg_instacart__order_products"}
      [] m = "instacart__user_features" ->
            {"int_instacart__user_order_metrics", "stg_instacart__orders",
             "stg_instacart__order_products"}
      [] m = "instacart__product_features" ->
            {"int_instacart__product_metrics", "stg_instacart__products",
             "stg_instacart__aisles", "stg_instacart__departments",
             "stg_instacart__order_products", "stg_instacart__orders"}
      [] m = "instacart__order_features" ->
            {"stg_instacart__orders", "stg_instacart__order_products",
             "stg_instacart__products"}
      [] m = "instacart__user_product_features" ->
            {"int_instacart__user_product_metrics", "stg_instacart__orders",
             "instacart__user_features", "instacart__product_features",
             "stg_instacart__order_products"}
      [] OTHER -> {}

\* The directory of a model: models/staging, models/intermediate,
\* models/marts/core.
Layer(m) ==
    IF m \in StagingNames THEN "staging"
    ELSE IF m \in {"int_instacart__user_order_metrics", "int_instacart__product_metrics",
                   "int_instacart__user_product_metrics"} THEN "intermediate"
    ELSE "core"

\* The status of a node in the current run.
NodeStatus(m) == IF m \in StagingNames THEN views[m] ELSE built[m].status

\* The select of model m, run over the raw tables and the models built so far.
RunModel(m, scan) ==
    LET o == stg_instacart__orders(ORDERS)
        op == stg_instacart__order_products(ORDER_PRODUCTS)
        p == stg_instacart__products(PRODUCTS)
        a == stg_instacart__aisles(AISLES)
        d == stg_instacart__departments(DEPARTMENTS)
    IN  CASE m = "int_instacart__user_order_metrics" ->
                int_instacart__user_order_metrics(o, op)
          [] m = "int_instacart__product_metrics" ->
                int_instacart__product_metrics(o, op, p)
          [] m = "int_instacart__user_product_metrics" ->
                int_instacart__user_product_metrics(o, op)
          [] m = "instacart__user_features" ->
                instacart__user_features(built["int_instacart__user_order_metrics"],
                                         o, op, scan)
          [] m = "instacart__product_features" ->
                instacart__product_features(built["int_instacart__product_metrics"],
                                            p, a, d, o, op, scan)
          [] m = "instacart__order_features" ->
                instacart__order_features(o, op, p, scan)
          [] m = "instacart__user_product_features" ->
                instacart__user_product_features(
                    built["int_instacart__user_product_metrics"],
                    built["instacart__user_features"],
                    built["instacart__product_features"], o, op, scan)

\* ------------------------------------ macro calculate_time_window_aggs
\* The macro is called with one group-by column g, the timestamp column ts
\* (a day number) and the metric column metric; base rows are numbered, so
\* that equal rows stay apart.
default_windows == {7, 30, 90}

\* coalesce(x, 0) on an integer and on a decimal.
Coalesce0(x) == IF x = NULL THEN 0 ELSE x
RCoalesce0(x) == IF x = RNULL THEN Rat(0, 1) ELSE x

\* sum(col): NULL when no row has a value.
SqlSum(T, c) == IF CountCol(T, c) = 0 THEN NULL ELSE SumCol(T, c)

source_data(relation) ==
    {[row |-> i, g |-> relation[i].g, ts |-> relation[i].ts,
      metric |-> relation[i].metric] : i \in 1..Len(relation)}

\* The window filter with the comparison turned round.
InWindow_older_than(r, w, today) == today - r.ts >= w

\* The window filter with a strict comparison.
InWindow_strict(r, w, today) == today - r.ts < w

\* where datediff('day', ts, current_date()) <= window
InWindow(r, w, today) == today - r.ts <= w

\* window_<w>: sum and avg of the metric per group, over the rows in the window
window_cte(sd, w, today) ==
    {LET G == {r \in sd : r.g = k /\ InWindow(r, w, today)}
     IN  [g |-> k, sum |-> SqlSum(G, "metric"), avg |-> AvgCol(G, "metric")]
     : k \in {r.g : r \in {x \in sd : InWindow(x, w, today)}}}

\* window_join as an inner join.
window_join_inner(r, win) == {x \in win : r.g # NULL /\ x.g = r.g}

\* The rows of window_<w> a source row joins: "=" on a NULL key never matches.
window_join(r, win) ==
    LeftJoin({x \in win : r.g # NULL /\ x.g = r.g},
             [g |-> NULL, sum |-> NULL, avg |-> RNULL])

\* select source_data.g, coalesce(...) ... from source_data left join
\* window_<w> ... for every w of windows.  A row of the result carries, per
\* window, the window_<w> row it joined.
calculate_time_window_aggs(relation, windows, today) ==
    LET sd == source_data(relation)
    IN  {[row |-> r.row, g |-> r.g,
          sum |-> [w \in windows |-> Coalesce0(j[w].sum)],
          avg |-> [w \in windows |-> RCoalesce0(j[w].avg)]]
         : <<r, j>> \in UNION {
              {<<x, f>> : f \in {h \in [windows -> UNION {window_join(x, window_cte(sd, w, today))
                                                           : w \in windows}] :
                                  \A w \in windows :
                                      h[w] \in window_join(x, window_cte(sd, w, today))}}
              : x \in sd}}

\* ------------------------------------------------------------ setup_logger
\* The names loggers are asked for, the levels and the log_file arguments.
\* None is Python's None; a log_file of None or "" is falsy.
None == "<None>"
LoggerNames == {"snowflake_feature_store", "instacart_loader"}
LogLevels == {"DEBUG", "INFO", "WARNING"}
LogFiles == {None, "", "app.log", "debug.log"}
Truthy(x) == x # None /\ x # ""

\* logging.getLogger(name) of a name never asked for: a new logger.
NewLogger == [level |-> "NOTSET", handlers |-> <<>>]
console_handler == [kind |-> "StreamHandler", target |-> "sys.stdout"]
file_handler(log_file) == [kind |-> "FileHandler", target |-> log_file]

\* setup_logger without "logger.handlers = []".
setup_logger_keep_handlers(logger, level, log_file) ==
    [level |-> level,
     handlers |-> logger.handlers \o <<console_handler>> \o
                  (IF Truthy(log_file) THEN <<file_handler(log_file)>> ELSE <<>>)]

\* The logger after setup_logger(name, level, log_file), logger being
\* logging.getLogger(name) before the call.
setup_logger(logger, level, log_file) ==
    [level |-> level,
     handlers |-> <<console_handler>> \o
                  (IF Truthy(log_file) THEN <<file_handler(log_file)>> ELSE <<>>)]

\* Importing the module runs "logger = setup_logger()".
InitLoggers ==
    /\ loggers = [n \in LoggerNames |->
                    IF n = "snowflake_feature_store"
                    THEN setup_logger(NewLogger, "INFO", None) ELSE NewLogger]
    /\ last_call = [n \in LoggerNames |->
                    IF n = "snowflake_feature_store"
                    THEN [called |-> TRUE, level |-> "INFO", log_file |-> None]
                    ELSE [called |-> FALSE, level |-> "NOTSET", log_file |-> None]]

\* ------------------------------------------- InstacartDataLoader.load_data
\* tables_info, in the order the loop reads it: file, table.
tables_info ==
    <<<<"aisles.csv", "AISLES">>, <<"departments.csv", "DEPARTMENTS">>,
      <<"products.csv", "PRODUCTS">>, <<"orders.csv", "ORDERS">>,
      <<"order_products__prior.csv", "ORDER_PRODUCTS">>,
      <<"order_products__train.csv", "ORDER_PRODUCTS">>>>

\* "overwrite" if not file.startswith("order_products") else "append"
WriteMode(file) ==
    IF file \in {"order_products__prior.csv", "order_products__train.csv"}
    THEN "append" ELSE "overwrite"

\* df.write.mode(mode).save_as_table(table): overwrite replaces the rows of
\* the table, append adds the rows of df to them.
save_as_table(tables, table, df, mode) ==
    [tables EXCEPT ![table] =
        IF mode = "overwrite" THEN SetToBag(df) ELSE @ (+) SetToBag(df)]

\* The loop of load_data from the i-th entry of tables_info on.
RECURSIVE load_files(_, _, _)
load_files(tables, files, i) ==
    IF i > Len(tables_info) THEN tables
    ELSE load_files(save_as_table(tables, tables_info[i][2], files[tables_info[i][1]],
                                  WriteMode(tables_info[i][1])),
                    files, i + 1)

load_data(tables, files) == load_files(tables, files, 1)

\* A schema without rows.
EmptySchema == [t \in {tables_info[i][2] : i \in DOMAIN tables_info} |-> EmptyBag]

\* The CSV files: three orders, the first two prior and the last train;
\* each order_products file lists lines of its own orders, a line once.
CsvOrders ==
    {[ORDER_ID |-> 1, EVAL_SET |-> "prior"], [ORDER_ID |-> 2, EVAL_SET |-> "prior"],
     [ORDER_ID |-> 3, EVAL_SET |-> "train"]}
CsvLines(e) ==
    {[ORDER_ID |-> r.ORDER_ID, PRODUCT_ID |-> p] :
        r \in {x \in CsvOrders : x.EVAL_SET = e}, p \in ProductIds}
CsvFiles(prior, train) ==
    [f \in {tables_info[i][1] : i \in DOMAIN tables_info} |->
        CASE f = "aisles.csv" -> {[AISLE_ID |-> i] : i \in AisleIds}
          [] f = "departments.csv" -> {[DEPARTMENT_ID |-> i] : i \in DepartmentIds}
          [] f = "products.csv" -> {[PRODUCT_ID |-> i] : i \in ProductIds}
          [] f = "orders.csv" -> CsvOrders
          [] f = "order_products__prior.csv" -> prior
          [] f = "order_products__train.csv" -> train]
CsvChoices ==
    {CsvFiles(prior, train) :
        prior \in SUBSET CsvLines("prior"), train \in SUBSET CsvLines("train")}

\* The loggers after import, the whole data set on disk, nothing loaded.
InitPython ==
    /\ InitLoggers
    /\ csv_files = CsvFiles(CsvLines("prior"), CsvLines("train"))
    /\ RAW_TABLES = EmptySchema
    /\ load_runs = 0

\* ---------------------------------------------------------------- actions
\* The days current_date() returns while the model runs, the days base rows
\* are stamped with, their group keys and their metric values.
RunDates == {100, 101}
FirstRunDate == CHOOSE d \in RunDates : \A e \in RunDates : d <= e
TimestampDays == {0, 10, 70, 92, 95}
GroupKeys == {NULL, 1, 2}
MetricValues == {NULL, 1, 2}

NotCalled == [status |-> "pending", run_date |-> NULL, rows |-> {}]

Init ==
    /\ ORDERS = {}
    /\ ORDER_PRODUCTS = {}
    /\ PRODUCTS \in Catalogs
    /\ AISLES = {[AISLE_ID |-> i] : i \in AisleIds}
    /\ DEPARTMENTS = {[DEPARTMENT_ID |-> i] : i \in DepartmentIds}
    /\ pc = "load"
    /\ built = [m \in ModelNames |-> Pending]
    /\ views = [v \in StagingNames |-> "pending"]
    /\ project_vars = DefaultProjectVars
    /\ base_relation = <<>>
    /\ current_date = FirstRunDate
    /\ window_aggs = NotCalled
    /\ dbt_runs = 0
    /\ InitPython

\* A row arrives in ORDERS.  ORDER_ID is unique and not null and USER_ID is
\* not null (source tests); ORDER_NUMBER increases with each order of a user;
\* DAYS_SINCE_PRIOR_ORDER is NULL on a user's first order.  Users are numbered
\* in the order of their first order.
LoadOrder(u, n, w, h, e) ==
    /\ pc = "load"
    /\ Cardinality(ORDERS) < MaxOrders
    /\ \A v \in UserIds : v < u => \E r \in ORDERS : r.USER_ID = v
    /\ \A r \in ORDERS : r.USER_ID = u => r.ORDER_NUMBER < n
    /\ ORDERS' = ORDERS \cup
         {[ORDER_ID |-> Cardinality(ORDERS) + 1, USER_ID |-> u, ORDER_NUMBER |-> n,
           ORDER_DOW |-> w, ORDER_HOUR_OF_DAY |-> h,
           DAYS_SINCE_PRIOR_ORDER |->
               IF \E r \in ORDERS : r.USER_ID = u THEN 7 ELSE NULL,
           EVAL_SET |-> e]}
    /\ UNCHANGED <<ORDER_PRODUCTS, PRODUCTS, AISLES, DEPARTMENTS, pc, built, views, project_vars, window_vars, dbt_runs, python_vars>>

\* A row arrives in ORDER_PRODUCTS.  ORDER_ID and PRODUCT_ID reference loaded
\* rows (relationships tests); ADD_TO_CART_ORDER counts the lines of the order.
LoadOrderProduct(i, p, re) ==
    /\ pc = "load"
    /\ Cardinality(ORDER_PRODUCTS) < MaxLines
    /\ \E r \in ORDERS : r.ORDER_ID = i
    /\ \E r \in PRODUCTS : r.PRODUCT_ID = p
    /\ ORDER_PRODUCTS' = ORDER_PRODUCTS \cup
         {[ORDER_ID |-> i, PRODUCT_ID |-> p,
           ADD_TO_CART_ORDER |-> Cardinality({l \in ORDER_PRODUCTS : l.ORDER_ID = i}) + 1,
           REORDERED |-> re]}
    /\ UNCHANGED <<ORDERS, PRODUCTS, AISLES, DEPARTMENTS, pc, built, views, project_vars, window_vars, dbt_runs, python_vars>>

\* dbt build with incremental models: the rows of a run are added to the
\* rows the table already holds.
DbtBuild_merge ==
    /\ pc = "load"
    /\ \E scan \in ScanOrders :
          built' = [m \in ModelNames |->
                      LET new == DbtRun(ORDERS, ORDER_PRODUCTS, PRODUCTS, AISLES,
                                        DEPARTMENTS, scan)[m]
                      IN  IF new.status = "success"
                          THEN Success(built[m].rows \cup new.rows) ELSE new]
    /\ views' = [v \in StagingNames |-> "success"]
    /\ pc' = "built"
    /\ dbt_runs' = dbt_runs + 1
    /\ UNCHANGED <<ORDERS, ORDER_PRODUCTS, PRODUCTS, AISLES, DEPARTMENTS, project_vars,
                 window_vars, python_vars>>

\* dbt build: every model is rebuilt from the raw tables.
DbtBuild ==
    /\ pc = "load"
    /\ \E scan \in ScanOrders :
          built' = DbtRun(ORDERS, ORDER_PRODUCTS, PRODUCTS, AISLES, DEPARTMENTS, scan)
    /\ views' = [v \in StagingNames |-> "success"]
    /\ pc' = "built"
    /\ dbt_runs' = dbt_runs + 1
    /\ UNCHANGED <<ORDERS, ORDER_PRODUCTS, PRODUCTS, AISLES, DEPARTMENTS, project_vars,
                 window_vars, python_vars>>

Next ==
    \/ \E u \in UserIds, n \in OrderNumbers, t \in TimeSlots, e \in EvalSets :
          LoadOrder(u, n, t[1], t[2], e)
    \/ \E i \in 1..MaxOrders, p \in ProductIds, re \in {0, 1} : LoadOrderProduct(i, p, re)
    \/ DbtBuild

Spec == Init /\ [][Next]_vars

\* ------------------------------------------- the window generator on its own
InitWindow ==
    /\ ORDERS = {}
    /\ ORDER_PRODUCTS = {}
    /\ PRODUCTS = {}
    /\ AISLES = {}
    /\ DEPARTMENTS = {}
    /\ pc = "load"
    /\ built = [m \in ModelNames |-> Pending]
    /\ views = [v \in StagingNames |-> "pending"]
    /\ project_vars = DefaultProjectVars
    /\ base_relation = <<>>
    /\ current_date = FirstRunDate
    /\ window_aggs = NotCalled
    /\ dbt_runs = 0
    /\ InitPython

\* A row arrives in the base relation, before the macro's model is built.
InsertBaseRow(g, ts, m) ==
    /\ window_aggs.status = "pending"
    /\ Len(base_relation) < MaxBaseRows
    /\ base_relation' = Append(base_relation, [g |-> g, ts |-> ts, metric |-> m])
    /\ UNCHANGED <<current_date, window_aggs, pipeline_vars, python_vars>>

\* Midnight passes.
AdvanceDate ==
    /\ current_date + 1 \in RunDates
    /\ current_date' = current_date + 1
    /\ UNCHANGED <<base_relation, window_aggs, pipeline_vars, python_vars>>

\* A model that calls the macro is built: the query reads current_date().
\* With no window the macro renders "with source_data as (...)," and nothing
\* after it, which the engine rejects.
CallTimeWindowAggs ==
    /\ window_aggs' =
          IF project_vars.time_windows = {}
          THEN [status |-> "error", run_date |-> current_date, rows |-> {}]
          ELSE [status |-> "success", run_date |-> current_date,
                rows |-> calculate_time_window_aggs(base_relation,
                            project_vars.time_windows, current_date)]
    /\ UNCHANGED <<base_relation, current_date, pipeline_vars, python_vars>>

NextWindow ==
    \/ \E g \in GroupKeys, ts \in TimestampDays, m \in MetricValues : InsertBaseRow(g, ts, m)
    \/ AdvanceDate
    \/ CallTimeWindowAggs

SpecWindow == InitWindow /\ [][NextWindow]_vars

\* ------------------------------------------------- the end-to-end scenario
\* One user with orders 1..ScenarioOrders: the last one is the order to
\* predict (train), the ones before it are the history (prior).
ScenarioORDERS ==
    {[ORDER_ID |-> n, USER_ID |-> 1, ORDER_NUMBER |-> n,
      ORDER_DOW |-> n % 2, ORDER_HOUR_OF_DAY |-> IF n % 2 = 0 THEN 9 ELSE 14,
      DAYS_SINCE_PRIOR_ORDER |-> IF n = 1 THEN NULL ELSE 7,
      EVAL_SET |-> IF n < ScenarioOrders THEN "prior" ELSE "train"]
     : n \in 1..ScenarioOrders}

InitScenario ==
    /\ ORDERS = ScenarioORDERS
    /\ ORDER_PRODUCTS = {}
    /\ PRODUCTS \in Catalogs
    /\ AISLES = {[AISLE_ID |-> i] : i \in AisleIds}
    /\ DEPARTMENTS = {[DEPARTMENT_ID |-> i] : i \in DepartmentIds}
    /\ pc = "load"
    /\ built = [m \in ModelNames |-> Pending]
    /\ views = [v \in StagingNames |-> "pending"]
    /\ project_vars = DefaultProjectVars
    /\ base_relation = <<>>
    /\ current_date = FirstRunDate
    /\ window_aggs = NotCalled
    /\ dbt_runs = 0
    /\ InitPython

NextScenario ==
    \/ \E i \in 1..ScenarioOrders, p \in ProductIds, re \in {0, 1} :
          LoadOrderProduct(i, p, re)
    \/ DbtBuild

SpecScenario == InitScenario /\ [][NextScenario]_vars

\* ------------------------------------------ runs with other project vars
\* The values the vars can be set to: eval_set is free text, time_windows
\* any list of integers.
EvalSetChoices == {"prior", "train", "test", "validation"}
TimeWindowsChoices == {{7, 30, 90}, {}, {0 - 7, 30}}
ProjectVarsChoices ==
    [eval_set : EvalSetChoices, time_windows : TimeWindowsChoices]

\* A base relation for the macro: one group with a row of age 5 and one of
\* age 8 on the first run date.
ScenarioBaseRelation ==
    <<[g |-> 1, ts |-> FirstRunDate - 5, metric |-> 1],
      [g |-> 1, ts |-> FirstRunDate - 8, metric |-> 2]>>

InitConfig ==
    /\ ORDERS = ScenarioORDERS
    /\ ORDER_PRODUCTS = {}
    /\ PRODUCTS \in Catalogs
    /\ AISLES = {[AISLE_ID |-> i] : i \in AisleIds}
    /\ DEPARTMENTS = {[DEPARTMENT_ID |-> i] : i \in DepartmentIds}
    /\ pc = "load"
    /\ built = [m \in ModelNames |-> Pending]
    /\ views = [v \in StagingNames |-> "pending"]
    /\ project_vars \in ProjectVarsChoices
    /\ base_relation = ScenarioBaseRelation
    /\ current_date = FirstRunDate
    /\ window_aggs = NotCalled
    /\ dbt_runs = 0
    /\ InitPython

NextConfig ==
    \/ \E i \in 1..ScenarioOrders, p \in ProductIds, re \in {0, 1} :
          LoadOrderProduct(i, p, re)
    \/ DbtBuild
    \/ CallTimeWindowAggs

SpecConfig == InitConfig /\ [][NextConfig]_vars

\* ------------------------------------------------ dbt build, node by node
\* The raw tables of the scenario with one order line in each order of K.
ScenarioLines(K) ==
    {[ORDER_ID |-> n, PRODUCT_ID |-> 1 + (n % MaxProducts), ADD_TO_CART_ORDER |-> 1,
      REORDERED |-> IF n > MaxProducts THEN 1 ELSE 0] : n \in K}

InitBuild ==
    /\ ORDERS = ScenarioORDERS
    /\ ORDER_PRODUCTS \in {ScenarioLines(1..ScenarioOrders),
                           ScenarioLines(1..(min_orders - 1))}
    /\ PRODUCTS \in Catalogs
    /\ AISLES = {[AISLE_ID |-> i] : i \in AisleIds}
    /\ DEPARTMENTS = {[DEPARTMENT_ID |-> i] : i \in DepartmentIds}
    /\ pc = "load"
    /\ built = [m \in ModelNames |-> Pending]
    /\ views = [v \in StagingNames |-> "pending"]
    /\ project_vars = DefaultProjectVars
    /\ base_relation = <<>>
    /\ current_date = FirstRunDate
    /\ window_aggs = NotCalled
    /\ dbt_runs = 0
    /\ InitPython

\* dbt build is started.
StartBuild ==
    /\ pc = "load"
    /\ pc' = "building"
    /\ UNCHANGED <<ORDERS, ORDER_PRODUCTS, PRODUCTS, AISLES, DEPARTMENTS, built, views,
                   project_vars, window_vars, dbt_runs, python_vars>>

\* A staging view is created: it reads raw tables only.
CreateView(v) ==
    /\ pc = "building"
    /\ views[v] = "pending"
    /\ views' = [views EXCEPT ![v] = "success"]
    /\ UNCHANGED <<ORDERS, ORDER_PRODUCTS, PRODUCTS, AISLES, DEPARTMENTS, pc, built,
                   project_vars, window_vars, dbt_runs, python_vars>>

\* A model is run once every node it refers to is done; it is skipped when
\* one of them did not succeed.
BuildModel(m) ==
    /\ pc = "building"
    /\ built[m].status = "pending"
    /\ \A u \in Refs(m) : NodeStatus(u) # "pending"
    /\ \E scan \in ScanOrders :
          built' = [built EXCEPT ![m] =
                        IF \E u \in Refs(m) : NodeStatus(u) # "success"
                        THEN Skipped ELSE RunModel(m, scan)]
    /\ UNCHANGED <<ORDERS, ORDER_PRODUCTS, PRODUCTS, AISLES, DEPARTMENTS, pc, views,
                   project_vars, window_vars, dbt_runs, python_vars>>

\* Every node is done: the run ends.
FinishBuild ==
    /\ pc = "building"
    /\ \A m \in Nodes : NodeStatus(m) # "pending"
    /\ pc' = "built"
    /\ dbt_runs' = dbt_runs + 1
    /\ UNCHANGED <<ORDERS, ORDER_PRODUCTS, PRODUCTS, AISLES, DEPARTMENTS, built, views,
                   project_vars, window_vars, python_vars>>

NextBuild ==
    \/ StartBuild
    \/ \E v \in StagingNames : CreateView(v)
    \/ \E m \in ModelNames : BuildModel(m)
    \/ FinishBuild

SpecBuild == InitBuild /\ [][NextBuild]_vars

\* ------------------------------------------- orders at every hour and day
\* ORDER_DOW is 0-6 and ORDER_HOUR_OF_DAY 0-23.
DaysOfWeek == 0..6
HoursOfDay == 0..23

\* One user with two prior orders, numbered min_orders and min_orders + 1:
\* the first at day w and hour h, the second five days and seven hours
\* later in the week and the day.
HoursORDERS(w, h) ==
    {[ORDER_ID |-> 1, USER_ID |-> 1, ORDER_NUMBER |-> min_orders,
      ORDER_DOW |-> w, ORDER_HOUR_OF_DAY |-> h,
      DAYS_SINCE_PRIOR_ORDER |-> 7, EVAL_SET |-> "prior"],
     [ORDER_ID |-> 2, USER_ID |-> 1, ORDER_NUMBER |-> min_orders + 1,
      ORDER_DOW |-> (w + 5) % 7, ORDER_HOUR_OF_DAY |-> (h + 7) % 24,
      DAYS_SINCE_PRIOR_ORDER |-> 7, EVAL_SET |-> "prior"]}

InitHours ==
    /\ ORDERS \in {HoursORDERS(w, h) : w \in DaysOfWeek, h \in HoursOfDay}
    /\ ORDER_PRODUCTS = {}
    /\ PRODUCTS = {ProductRow(p, 1, 1) : p \in ProductIds}
    /\ AISLES = {[AISLE_ID |-> i] : i \in AisleIds}
    /\ DEPARTMENTS = {[DEPARTMENT_ID |-> i] : i \in DepartmentIds}
    /\ pc = "load"
    /\ built = [m \in ModelNames |-> Pending]
    /\ views = [v \in StagingNames |-> "pending"]
    /\ project_vars = DefaultProjectVars
    /\ base_relation = <<>>
    /\ current_date = FirstRunDate
    /\ window_aggs = NotCalled
    /\ dbt_runs = 0
    /\ InitPython

NextHours ==
    \/ \E i \in 1..MaxOrders, p \in ProductIds, re \in {0, 1} : LoadOrderProduct(i, p, re)
    \/ DbtBuild

SpecHours == InitHours /\ [][NextHours]_vars

\* ------------------------------------------------- run after run of dbt
\* The raw tables change between two runs: the load resumes after a build,
\* and the tables of the last build stay as they are until the next one.
ResumeLoading ==
    /\ pc = "built"
    /\ dbt_runs < MaxRuns
    /\ pc' = "load"
    /\ UNCHANGED <<ORDERS, ORDER_PRODUCTS, PRODUCTS, AISLES, DEPARTMENTS, built, views,
                   project_vars, window_vars, dbt_runs, python_vars>>

\* The last line of an order leaves ORDER_PRODUCTS.
RemoveOrderProduct(l) ==
    /\ pc = "load"
    /\ l \in ORDER_PRODUCTS
    /\ \A m \in ORDER_PRODUCTS :
          m.ORDER_ID = l.ORDER_ID => m.ADD_TO_CART_ORDER <= l.ADD_TO_CART_ORDER
    /\ ORDER_PRODUCTS' = ORDER_PRODUCTS \ {l}
    /\ UNCHANGED <<ORDERS, PRODUCTS, AISLES, DEPARTMENTS, pc, built, views, project_vars,
                   window_vars, dbt_runs, python_vars>>

InitRerun ==
    /\ ORDERS = HoursORDERS(1, 9)
    /\ ORDER_PRODUCTS = {}
    /\ PRODUCTS = {ProductRow(p, 1, 1) : p \in ProductIds}
    /\ AISLES = {[AISLE_ID |-> i] : i \in AisleIds}
    /\ DEPARTMENTS = {[DEPARTMENT_ID |-> i] : i \in DepartmentIds}
    /\ pc = "load"
    /\ built = [m \in ModelNames |-> Pending]
    /\ views = [v \in StagingNames |-> "pending"]
    /\ project_vars = DefaultProjectVars
    /\ base_relation = <<>>
    /\ current_date = FirstRunDate
    /\ window_aggs = NotCalled
    /\ dbt_runs = 0
    /\ InitPython

NextRerun ==
    \/ \E i \in 1..MaxOrders, p \in ProductIds, re \in {0, 1} : LoadOrderProduct(i, p, re)
    \/ \E l \in ORDER_PRODUCTS : RemoveOrderProduct(l)
    \/ DbtBuild
    \/ ResumeLoading

SpecRerun == InitRerun /\ [][NextRerun]_vars

\* ----------------------------------------------------- the Python helpers
\* setup_logger(name, level, log_file) is called.
SetupLogger(name, level, log_file) ==
    /\ loggers' = [loggers EXCEPT ![name] = setup_logger(@, level, log_file)]
    /\ last_call' = [last_call EXCEPT ![name] =
                        [called |-> TRUE, level |-> level, log_file |-> log_file]]
    /\ UNCHANGED <<pipeline_vars, window_vars, csv_files, RAW_TABLES, load_runs>>

SpecLogger ==
    InitWindow /\ [][\E name \in LoggerNames, level \in LogLevels, log_file \in LogFiles :
                        SetupLogger(name, level, log_file)]_vars

\* InstacartDataLoader(session, data_path).load_data() runs to its end.
LoadData ==
    /\ load_runs < MaxLoads
    /\ RAW_TABLES' = load_data(RAW_TABLES, csv_files)
    /\ load_runs' = load_runs + 1
    /\ UNCHANGED <<pipeline_vars, window_vars, loggers, last_call, csv_files>>

InitLoader ==
    /\ ORDERS = {}
    /\ ORDER_PRODUCTS = {}
    /\ PRODUCTS = {}
    /\ AISLES = {}
    /\ DEPARTMENTS = {}
    /\ pc = "load"
    /\ built = [m \in ModelNames |-> Pending]
    /\ views = [v \in StagingNames |-> "pending"]
    /\ project_vars = DefaultProjectVars
    /\ base_relation = <<>>
    /\ current_date = FirstRunDate
    /\ window_aggs = NotCalled
    /\ dbt_runs = 0
    /\ InitLoggers
    /\ csv_files \in CsvChoices
    /\ RAW_TABLES = EmptySchema
    /\ load_runs = 0

SpecLoader == InitLoader /\ [][LoadData]_vars

\* =================================================================== claims
Built(m) == built[m]
PriorOrders == {r \in ORDERS : r.EVAL_SET = eval_set}
PriorLines == {l \in ORDER_PRODUCTS : \E r \in PriorOrders : r.ORDER_ID = l.ORDER_ID}
FeatureTables(b) ==
    [m \in {"instacart__user_features", "instacart__product_features",
            "instacart__order_features", "instacart__user_product_features"} |-> b[m]]

\* C1: the four feature tables of a build are what a build produces from the
\* reference tables, the orders of the configured partition and the order
\* lines of those orders alone: orders of another partition and their lines
\* change no feature table.
C1_FeaturesReadOnlyConfiguredPartition ==
    pc = "built" =>
        \E scan \in ScanOrders :
            FeatureTables(built) =
                FeatureTables(DbtRun(PriorOrders, PriorLines, PRODUCTS, AISLES,
                                     DEPARTMENTS, scan))

\* C1 witness: a build with feature rows for a user who also has an order,
\* with an order line, in another partition.
C1_Witness ==
    /\ pc = "built"
    /\ \E r \in Built("instacart__user_features").rows :
          \E t \in ORDERS :
              /\ t.USER_ID = r.user_id
              /\ t.EVAL_SET # eval_set
              /\ \E l \in ORDER_PRODUCTS : l.ORDER_ID = t.ORDER_ID

\* C2: user_total_orders of every user_features row is the number of that
\* user's orders in the configured partition.
C2_UserTotalOrdersIsOrderCount ==
    pc = "built" =>
        \A r \in Built("instacart__user_features").rows :
            r.user_total_orders =
                Cardinality({t \in PriorOrders : t.USER_ID = r.user_id})

\* C3: instacart__user_features has at most one row per user_id and no row
\* with a NULL user_id.
C3_UserFeaturesKeyUnique ==
    pc = "built" =>
        \A r1, r2 \in Built("instacart__user_features").rows :
            /\ r1.user_id # NULL
            /\ r1.user_id = r2.user_id => r1 = r2

\* C3 witness: a user_features row of a user with two orders in the
\* configured partition, so that last_orders holds two rows of the user.
C3_Witness ==
    /\ pc = "built"
    /\ \E r \in Built("instacart__user_features").rows :
          Cardinality({t \in PriorOrders : t.USER_ID = r.user_id}) >= 2

\* The products with at least one order line in the configured partition.
OrderedProducts == {r \in PRODUCTS : \E l \in PriorLines : l.PRODUCT_ID = r.PRODUCT_ID}
Classified(r) == r.AISLE_ID # NULL /\ r.DEPARTMENT_ID # NULL
RowsOfProduct(i) == {r \in Built("instacart__product_features").rows : r.product_id = i}

\* C4 as stated: instacart__product_features has no NULL product_id, at most
\* one row per product_id, and exactly one row for every product that has an
\* order line in the configured partition.
C4_OneRowPerOrderedProduct ==
    pc = "built" =>
        /\ \A r \in Built("instacart__product_features").rows : r.product_id # NULL
        /\ \A r \in PRODUCTS : Cardinality(RowsOfProduct(r.PRODUCT_ID)) <= 1
        /\ \A r \in OrderedProducts : Cardinality(RowsOfProduct(r.PRODUCT_ID)) = 1

\* C4 amended: instacart__product_features has no NULL product_id, at most
\* one row per product_id, and exactly one row for every product that has an
\* order line in the configured partition and whose aisle_id and
\* department_id are not NULL.
C4_OneRowPerClassifiedOrderedProduct ==
    pc = "built" =>
        /\ \A r \in Built("instacart__product_features").rows : r.product_id # NULL
        /\ \A r \in PRODUCTS : Cardinality(RowsOfProduct(r.PRODUCT_ID)) <= 1
        /\ \A r \in OrderedProducts :
              Classified(r) => Cardinality(RowsOfProduct(r.PRODUCT_ID)) = 1

\* C4 witness: a product_features row of a product ordered at two different
\* hours, so that its peak hour is picked among two candidates.
C4_Witness ==
    /\ pc = "built"
    /\ \E r \in Built("instacart__product_features").rows :
          Cardinality({t.ORDER_HOUR_OF_DAY : t \in {u \in PriorOrders :
              \E l \in ORDER_PRODUCTS :
                  l.ORDER_ID = u.ORDER_ID /\ l.PRODUCT_ID = r.product_id}}) >= 2

\* C5: instacart__order_features is built, and holds exactly one row per
\* order of the configured partition and no other row.
C5_OneRowPerOrder ==
    pc = "built" =>
        /\ Built("instacart__order_features").status = "success"
        /\ \A t \in PriorOrders :
              Cardinality({r \in Built("instacart__order_features").rows :
                              r.order_id = t.ORDER_ID}) = 1
        /\ \A r \in Built("instacart__order_features").rows :
              r.order_id # NULL /\ \E t \in PriorOrders : t.ORDER_ID = r.order_id

\* C5 witness: an order of the configured partition with two order lines, of
\* two products.
C5_Witness ==
    /\ pc = "built"
    /\ \E r \in Built("instacart__order_features").rows :
          Cardinality({l.PRODUCT_ID : l \in {x \in ORDER_PRODUCTS :
                                                x.ORDER_ID = r.order_id}}) >= 2

\* Identifiers whose decimal digits overlap.
ConcatIds == {1, 2, 11, 12, 21, 111, 112}

\* C6: instacart__user_product_features has at most one row per
\* (user_id, product_id), neither is NULL, user_product_id is unique, and two
\* different pairs never get the same user_product_id.
C6_UserProductKeyUnique ==
    /\ pc = "built" =>
          \A r1, r2 \in Built("instacart__user_product_features").rows :
              /\ r1.user_id # NULL /\ r1.product_id # NULL
              /\ (r1.user_id = r2.user_id /\ r1.product_id = r2.product_id) => r1 = r2
              /\ r1.user_product_id = r2.user_product_id => r1 = r2
    /\ (pc = "load" /\ ORDERS = {}) =>
          \A u1, p1, u2, p2 \in ConcatIds :
              Concat(u1, p1) = Concat(u2, p2) => u1 = u2 /\ p1 = p2

\* C6 witness: a row of a pair whose product the user bought in two orders,
\* so that user_product_recency holds two rows of the pair.
C6_Witness ==
    /\ pc = "built"
    /\ \E r \in Built("instacart__user_product_features").rows : r.up_orders >= 2

\* The users whose orders that pass the order_number filter hold no order line.
UsersWithoutLines ==
    {t.USER_ID : t \in {x \in PriorOrders : x.ORDER_NUMBER >= min_orders}} \
    {t.USER_ID : t \in {x \in PriorOrders :
        x.ORDER_NUMBER >= min_orders /\ \E l \in ORDER_PRODUCTS : l.ORDER_ID = x.ORDER_ID}}

\* C7: no rate of the metric models makes the run fail, and a user whose
\* orders that pass the order_number filter hold no order line has a
\* user_metrics row with a NULL overall_reorder_rate.
C7_MetricRatesSafeDivide ==
    pc = "built" =>
        /\ Built("int_instacart__user_order_metrics").status = "success"
        /\ Built("int_instacart__product_metrics").status = "success"
        /\ Built("int_instacart__user_product_metrics").status = "success"
        /\ \A u \in UsersWithoutLines :
              \E r \in Built("int_instacart__user_order_metrics").rows :
                  r.user_id = u /\ r.overall_reorder_rate = RNULL

\* A decimal that is zero and not NULL.
IsZero(x) == x.d # 0 /\ x.n = 0

RowsInWindow(g, w) ==
    {i \in 1..Len(base_relation) :
        base_relation[i].g = g /\ window_aggs.run_date - base_relation[i].ts <= w}

\* C9: the result of calculate_time_window_aggs contains every group of the
\* base relation, no sum or average in it is NULL, and for a window in which
\* a group has no row its sum and its average are 0.
C9_SparseGroupsKeptWithZeros ==
    window_aggs.status = "success" =>
        \A i \in 1..Len(base_relation) :
            /\ \E r \in window_aggs.rows : r.g = base_relation[i].g
            /\ \A r \in window_aggs.rows, w \in default_windows :
                  /\ r.sum[w] # NULL /\ r.avg[w] # RNULL
                  /\ (r.g = base_relation[i].g /\ RowsInWindow(r.g, w) = {}) =>
                        r.sum[w] = 0 /\ r.avg[w] = Rat(0, 1)

\* C9 witness: a result for a group that has a row in one window and no row
\* in a shorter one.
C9_Witness ==
    /\ window_aggs.status = "success"
    /\ \E r \in window_aggs.rows, v, w \in default_windows :
          /\ RowsInWindow(r.g, v) = {}
          /\ RowsInWindow(r.g, w) # {}
          /\ r.sum[v] = 0
          /\ r.sum[w] > 0

\* C10: the result of calculate_time_window_aggs has exactly one row per
\* group of the base relation.
C10_OneRowPerGroup ==
    window_aggs.status = "success" =>
        \A i \in 1..Len(base_relation) :
            Cardinality({r \in window_aggs.rows : r.g = base_relation[i].g}) = 1

\* C11: in every row of the result, for two windows v < w the sum of the
\* longer window is at least the sum of the shorter one (the metric values
\* of the base relation are never negative).
C11_LongerWindowSumNotSmaller ==
    window_aggs.status = "success" =>
        \A r \in window_aggs.rows, v, w \in default_windows :
            v < w => r.sum[v] <= r.sum[w]

\* C11 witness: a result row whose sum grows from one window to a longer
\* one, the shorter one being positive already.
C11_Witness ==
    /\ window_aggs.status = "success"
    /\ \E r \in window_aggs.rows, v, w \in default_windows :
          v < w /\ 0 < r.sum[v] /\ r.sum[v] < r.sum[w]

\* The age in days of base row i on the day of the run.
AgeInDays(i) == window_aggs.run_date - base_relation[i].ts

\* The sum and the number of the metric values of the base rows I.
RECURSIVE SumOfMetric(_)
SumOfMetric(I) ==
    IF I = {} THEN 0
    ELSE LET i == CHOOSE x \in I : TRUE
         IN  (IF base_relation[i].metric = NULL THEN 0 ELSE base_relation[i].metric)
             + SumOfMetric(I \ {i})
CountOfMetric(I) == Cardinality({i \in I : base_relation[i].metric # NULL})
AvgOfMetric(I) ==
    IF CountOfMetric(I) = 0 THEN RNULL ELSE Rat(SumOfMetric(I), CountOfMetric(I))

\* The base rows of group g whose age is at most w.
Members(g, w) ==
    {i \in 1..Len(base_relation) : base_relation[i].g = g /\ AgeInDays(i) <= w}

\* C12: for every window w on its own, window_<w> has a row for a group
\* exactly when the group has a base row of age at most w, its sum and its
\* average are those of exactly these base rows, and a result row of a group
\* carries them.
C12_MembershipIsAgeAtMostWindow ==
    window_aggs.status = "success" =>
        \A w \in default_windows :
            LET cte == window_cte(source_data(base_relation), w, window_aggs.run_date)
            IN  /\ \A g \in GroupKeys : (Members(g, w) # {}) <=> (\E c \in cte : c.g = g)
                /\ \A c \in cte :
                      /\ Coalesce0(c.sum) = SumOfMetric(Members(c.g, w))
                      /\ c.avg = AvgOfMetric(Members(c.g, w))
                /\ \A r \in window_aggs.rows :
                      r.g # NULL =>
                          /\ r.sum[w] = SumOfMetric(Members(r.g, w))
                          /\ r.avg[w] = RCoalesce0(AvgOfMetric(Members(r.g, w)))

\* C12 witness: a group with a row of age 5 and a row of age 8: the first is
\* counted in the 7-, 30- and 90-day sums, the second in the 30- and 90-day
\* sums only.
C12_Witness ==
    /\ window_aggs.status = "success"
    /\ \E i, j \in 1..Len(base_relation) :
          /\ AgeInDays(i) = 5 /\ AgeInDays(j) = 8
          /\ base_relation[i].g = base_relation[j].g
          /\ base_relation[i].metric # NULL /\ base_relation[j].metric # NULL
          /\ \E r \in window_aggs.rows :
                /\ r.g = base_relation[i].g
                /\ r.sum[7] = base_relation[i].metric
                /\ r.sum[30] = base_relation[i].metric + base_relation[j].metric
                /\ r.sum[90] = r.sum[30]

\* C13: building the model again over the same base relation gives the same
\* rows, whatever the day on which it is built (the base relation cannot
\* change once the model has been built).
C13_SameDataSameOutput ==
    [][(window_aggs.status = "success" /\ window_aggs'.status = "success")
          => window_aggs'.rows = window_aggs.rows]_vars

\* The product_features table a second build over the same raw tables gives
\* when the engine numbers tied rows in the order scan.
ProductFeaturesAgain(scan) ==
    DbtRun(ORDERS, ORDER_PRODUCTS, PRODUCTS, AISLES, DEPARTMENTS, scan)
        .instacart__product_features.rows

\* C14: a second build over the same raw tables gives every product the
\* department_popularity_rank and the aisle_popularity_rank of the first.
C14_RanksDeterministic ==
    pc = "built" =>
        \A scan \in ScanOrders :
            \A r \in Built("instacart__product_features").rows,
               x \in ProductFeaturesAgain(scan) :
                r.product_id = x.product_id =>
                    /\ r.department_popularity_rank = x.department_popularity_rank
                    /\ r.aisle_popularity_rank = x.aisle_popularity_rank

\* The number of order lines of product i, in orders of the configured
\* partition, placed at hour h / on day w.
LinesAtHour(i, h) ==
    Cardinality({l \in PriorLines : l.PRODUCT_ID = i /\
        \E t \in PriorOrders : t.ORDER_ID = l.ORDER_ID /\ t.ORDER_HOUR_OF_DAY = h})
LinesOnDay(i, w) ==
    Cardinality({l \in PriorLines : l.PRODUCT_ID = i /\
        \E t \in PriorOrders : t.ORDER_ID = l.ORDER_ID /\ t.ORDER_DOW = w})

\* C15: peak_hour and peak_day of every product are an hour and a day with
\* the most order lines of the product, and a second build over the same raw
\* tables picks the same ones.
C15_PeakMaximalAndDeterministic ==
    pc = "built" =>
        \A r \in Built("instacart__product_features").rows :
            /\ r.peak_hour # NULL /\ r.peak_day # NULL
            /\ \A h \in 0..23 : LinesAtHour(r.product_id, h) <= LinesAtHour(r.product_id, r.peak_hour)
            /\ \A w \in 0..6 : LinesOnDay(r.product_id, w) <= LinesOnDay(r.product_id, r.peak_day)
            /\ \A scan \in ScanOrders :
                  \A x \in ProductFeaturesAgain(scan) :
                      r.product_id = x.product_id =>
                          r.peak_hour = x.peak_hour /\ r.peak_day = x.peak_day

\* The buckets of the day and the days of the week, in the order of priority.
DayParts == <<"morning", "midday", "evening", "night">>

\* The number of the pair's order lines, in orders of the configured
\* partition, whose hour falls in bucket b / whose day is w.
PairLines(u, i) ==
    {<<l, t>> \in PriorLines \X PriorOrders :
        l.ORDER_ID = t.ORDER_ID /\ t.USER_ID = u /\ l.PRODUCT_ID = i}
PairLinesInPart(u, i, b) ==
    Cardinality({x \in PairLines(u, i) : DayPart(x[2].ORDER_HOUR_OF_DAY) = b})
PairLinesOnDay(u, i, w) ==
    Cardinality({x \in PairLines(u, i) : x[2].ORDER_DOW = w})

\* C16: dominant_day_part of every pair is the first bucket, in the order
\* morning, midday, evening, night, whose count is the largest of the four;
\* dominant_dow is the lowest day whose count is the largest of the seven;
\* counts of 5, 5, 2 and 1 give morning.
C16_DominantIsFirstMaximum ==
    /\ pc = "built" =>
          \A r \in Built("instacart__user_product_features").rows :
              /\ \E k \in 1..4 :
                    /\ r.dominant_day_part = DayParts[k]
                    /\ \A j \in 1..4 :
                          /\ PairLinesInPart(r.user_id, r.product_id, DayParts[j])
                                <= PairLinesInPart(r.user_id, r.product_id, DayParts[k])
                          /\ j < k =>
                                PairLinesInPart(r.user_id, r.product_id, DayParts[j])
                                  < PairLinesInPart(r.user_id, r.product_id, DayParts[k])
              /\ r.dominant_dow \in 0..6
              /\ \A w \in 0..6 :
                    /\ PairLinesOnDay(r.user_id, r.product_id, w)
                          <= PairLinesOnDay(r.user_id, r.product_id, r.dominant_dow)
                    /\ w < r.dominant_dow =>
                          PairLinesOnDay(r.user_id, r.product_id, w)
                            < PairLinesOnDay(r.user_id, r.product_id, r.dominant_dow)
    /\ (pc = "load" /\ ORDERS = {}) =>
          \A r \in dominant_day_parts({[user_id |-> 1, product_id |-> 1,
                        morning_purchases |-> 5, midday_purchases |-> 5,
                        evening_purchases |-> 2, night_purchases |-> 1]}) :
              r.dominant_day_part = "morning"

\* C16 witness: a pair bought once in the morning and once at midday, on
\* two different days: both selections are made among tied maxima.
C16_Witness ==
    /\ pc = "built"
    /\ \E r \in Built("instacart__user_product_features").rows :
          /\ r.morning_purchases = 1 /\ r.midday_purchases = 1
          /\ r.dominant_day_part = "morning"
          /\ r.dow_purchases[0] = 1 /\ r.dow_purchases[1] = 1
          /\ r.dominant_dow = 0

\* The number of order lines of the order numbered n of the scenario.
Basket(n) == Cardinality({l \in ORDER_PRODUCTS : l.ORDER_ID = n})

\* C17: in the scenario, instacart__order_features has no row of the last
\* order, and the basket_size_delta of every row is the basket size of its
\* order minus that of the order before it (NULL for order 1): no delta is
\* computed from the last order.
C17_NoDeltaFromTargetOrder ==
    pc = "built" =>
        /\ Built("instacart__order_features").status = "success"
        /\ \A r \in Built("instacart__order_features").rows :
              /\ r.order_id \in 1..(ScenarioOrders - 1)
              /\ r.basket_size = Basket(r.order_id)
              /\ r.basket_size_delta =
                    IF r.order_id = 1 THEN RNULL
                    ELSE Rat(Basket(r.order_id) - Basket(r.order_id - 1), 1)

\* C17 witness: the last prior order has a delta although the order to
\* predict has a basket of another size than the order the delta is taken
\* from.
C17_Witness ==
    /\ pc = "built"
    /\ Basket(ScenarioOrders) > 0
    /\ Basket(ScenarioOrders) # Basket(ScenarioOrders - 2)
    /\ \E r \in Built("instacart__order_features").rows :
          /\ r.order_id = ScenarioOrders - 1
          /\ r.basket_size_delta # RNULL

\* The configurations the claim calls valid.
ValidEvalSet == eval_set \in {"prior", "train", "test"}
ValidTimeWindows ==
    project_vars.time_windows # {} /\ \A w \in project_vars.time_windows : w > 0

\* C18: with an eval_set outside prior, train, test no model is
\* materialized, and with an empty window list or a window that is not
\* positive the macro's model is not materialized.
C18_InvalidConfigFailsFast ==
    /\ ~ValidEvalSet => \A m \in ModelNames : Built(m).status # "success"
    /\ ~ValidTimeWindows => window_aggs.status # "success"

\* The nodes a node reads, directly or through others, in at most k steps.
RECURSIVE Upstream(_, _)
Upstream(m, k) ==
    IF k = 0 THEN {}
    ELSE Refs(m) \cup UNION {Upstream(u, k - 1) : u \in Refs(m)}

\* The graph of ref() and source() has no cycle and is layered.
GraphAcyclicAndLayered ==
    /\ \A m \in Nodes : Refs(m) \subseteq Nodes /\ m \notin Upstream(m, Cardinality(Nodes))
    /\ \A m \in Nodes :
          /\ Layer(m) = "staging" => Refs(m) = {} /\ Sources(m) # {}
          /\ Layer(m) = "intermediate" =>
                Sources(m) = {} /\ \A u \in Refs(m) : Layer(u) = "staging"
          /\ Layer(m) = "core" => Sources(m) = {}

\* Node m leaves "pending" in this step / is run in this step.
Decided(m) == NodeStatus(m) = "pending" /\ NodeStatus(m)' # "pending"
Ran(m) == NodeStatus(m) = "pending" /\ NodeStatus(m)' \in {"success", "error"}

\* C20: the graph of the models has no cycle and is layered; a model is
\* decided only when every model it refers to is done, and run only when
\* every one of them is materialized; in particular
\* instacart__user_product_features is not decided before
\* instacart__user_features and instacart__product_features are done.
C20_StageOrdering ==
    [][/\ GraphAcyclicAndLayered
       /\ \A m \in Nodes :
             /\ Decided(m) => \A u \in Refs(m) : NodeStatus(u) # "pending"
             /\ Ran(m) => \A u \in Refs(m) : NodeStatus(u) = "success"
       /\ Decided("instacart__user_product_features") =>
             /\ NodeStatus("instacart__user_features") # "pending"
             /\ NodeStatus("instacart__product_features") # "pending"
       /\ Ran("instacart__user_product_features") =>
             /\ NodeStatus("instacart__user_features") = "success"
             /\ NodeStatus("instacart__product_features") = "success"]_vars

\* C20 witness: instacart__user_product_features is materialized while
\* another model of the run is still to be built.
C20_Witness ==
    /\ pc = "building"
    /\ NodeStatus("instacart__user_product_features") = "success"
    /\ NodeStatus("instacart__user_features") = "success"
    /\ NodeStatus("instacart__product_features") = "success"
    /\ NodeStatus("instacart__order_features") = "pending"

\* ------------------------------------------------------------------ C22
\* The orders of user u in the configured partition and their lines.
OrdersOfUser(u) == {t \in PriorOrders : t.USER_ID = u}
LinesOfUser(u) ==
    {l \in ORDER_PRODUCTS : \E t \in OrdersOfUser(u) : t.ORDER_ID = l.ORDER_ID}
\* x and y are the same number: fractions are compared by cross-multiplying.
SameRatio(x, y) == x.d # 0 /\ y.d # 0 /\ x.n * y.d = y.n * x.d

\* C22: min_orders excludes cold users, not orders: a user with fewer than
\* min_orders orders in the partition has no user-metrics row, and the row
\* of a user with at least min_orders orders counts every order of the user
\* in total_orders, avg_basket_size and total_items_ordered.
C22_ThresholdExcludesUsersNotOrders ==
    pc = "built" /\ Built("int_instacart__user_order_metrics").status = "success" =>
        \A u \in UserIds :
            LET n == Cardinality(OrdersOfUser(u))
                items == Cardinality(LinesOfUser(u))
                rows == {r \in Built("int_instacart__user_order_metrics").rows :
                            r.user_id = u}
            IN  /\ n < min_orders => rows = {}
                /\ n >= min_orders =>
                      \A r \in rows :
                          /\ r.total_orders = n
                          /\ r.total_items_ordered = items
                          /\ SameRatio(r.avg_basket_size, Rat(items, n))

\* ------------------------------------------------------------------ C23
\* C23: up_orders_ratio of a (user, product) pair is the number of the
\* user's orders in the partition that contain the product over the number
\* of all the user's orders in the partition.
C23_RatioOverAllOrdersOfUser ==
    pc = "built" /\ Built("int_instacart__user_product_metrics").status = "success" =>
        \A r \in Built("int_instacart__user_product_metrics").rows :
            LET containing ==
                    {t \in OrdersOfUser(r.user_id) :
                        \E l \in ORDER_PRODUCTS :
                            l.ORDER_ID = t.ORDER_ID /\ l.PRODUCT_ID = r.product_id}
            IN  SameRatio(r.up_orders_ratio,
                          Rat(Cardinality(containing),
                              Cardinality(OrdersOfUser(r.user_id))))

\* ------------------------------------------------------------------ C24
\* The orders of the partition that have no line.
EmptyOrders == {t \in PriorOrders : Basket(t.ORDER_ID) = 0}

\* C24: an order of the partition with no line still has exactly one row in
\* instacart__order_features, with basket_size 0, num_reordered_items 0 or
\* NULL and NULL reorder_ratio, aisle_diversity_ratio and
\* department_diversity_ratio; the model's build does not fail on it.
C24_EmptyOrderKeptWithNulls ==
    pc = "built" /\ EmptyOrders # {} =>
        /\ Built("instacart__order_features").status = "success"
        /\ \A t \in EmptyOrders :
              LET rows == {r \in Built("instacart__order_features").rows :
                              r.order_id = t.ORDER_ID}
              IN  /\ Cardinality(rows) = 1
                  /\ \A r \in rows :
                        /\ r.basket_size = 0
                        /\ r.num_reordered_items \in {0, NULL}
                        /\ r.reorder_ratio = RNULL
                        /\ r.aisle_diversity_ratio = RNULL
                        /\ r.department_diversity_ratio = RNULL

\* An order without lines was built next to an order with lines.
C24_Witness ==
    /\ pc = "built"
    /\ EmptyOrders # {}
    /\ \E t \in PriorOrders : Basket(t.ORDER_ID) > 0
    /\ \E r \in Built("instacart__order_features").rows :
          r.basket_size = 0 /\ r.order_id \in {t.ORDER_ID : t \in EmptyOrders}

\* ------------------------------------------------------------------ C25
\* The orders of the same user and partition numbered below t, and the one
\* of them with the highest number.
EarlierOrders(t) ==
    {s \in PriorOrders : s.USER_ID = t.USER_ID /\ s.ORDER_NUMBER < t.ORDER_NUMBER}
PreviousOrder(t) ==
    CHOOSE s \in EarlierOrders(t) :
        \A w \in EarlierOrders(t) : w.ORDER_NUMBER <= s.ORDER_NUMBER
\* The share of reordered lines of order n, NULL for an order without lines.
ReorderRatio(n) ==
    IF Basket(n) = 0 THEN RNULL
    ELSE Rat(Cardinality({l \in ORDER_PRODUCTS : l.ORDER_ID = n /\ l.REORDERED = 1}),
             Basket(n))
SameOrBothNull(x, y) == IF x.d = 0 \/ y.d = 0 THEN x = RNULL /\ y = RNULL ELSE SameRatio(x, y)

\* C25: the order with the lowest order_number of a user in the partition
\* has NULL deltas and 0 in same_day_as_last_order and
\* similar_hour_as_last_order; every other order is compared with the order
\* of the same user and partition that has the next lower order_number.
C25_DeltasAgainstPreviousOrderOfUser ==
    pc = "built" /\ Built("instacart__order_features").status = "success" =>
        \A t \in PriorOrders :
            \A r \in Built("instacart__order_features").rows :
                r.order_id = t.ORDER_ID =>
                    IF EarlierOrders(t) = {}
                    THEN /\ r.basket_size_delta = RNULL
                         /\ r.reorder_ratio_delta = RNULL
                         /\ r.same_day_as_last_order = 0
                         /\ r.similar_hour_as_last_order = 0
                    ELSE LET s == PreviousOrder(t)
                         IN  /\ r.basket_size_delta =
                                    Rat(Basket(t.ORDER_ID) - Basket(s.ORDER_ID), 1)
                             /\ SameOrBothNull(r.reorder_ratio_delta,
                                    RatMinus(ReorderRatio(t.ORDER_ID),
                                             ReorderRatio(s.ORDER_ID)))
                             /\ r.same_day_as_last_order =
                                    (IF t.ORDER_DOW = s.ORDER_DOW THEN 1 ELSE 0)
                             /\ r.similar_hour_as_last_order =
                                    (IF Abs(t.ORDER_HOUR_OF_DAY - s.ORDER_HOUR_OF_DAY) <= 3
                                     THEN 1 ELSE 0)

\* A user's second order was built with a delta that is not zero, and a
\* first order with a NULL delta.
C25_Witness ==
    /\ pc = "built"
    /\ \E r \in Built("instacart__order_features").rows :
          /\ r.basket_size_delta.d # 0 /\ r.basket_size_delta.n # 0
          /\ \E t \in PriorOrders : t.ORDER_ID = r.order_id /\ EarlierOrders(t) # {}
    /\ \E r \in Built("instacart__order_features").rows : r.basket_size_delta = RNULL

\* ------------------------------------------------------------------ C28
\* The user's most recent order in the partition contains product i.
InMostRecentOrder(u, i) ==
    \E t \in OrdersOfUser(u) :
        /\ \A s \in OrdersOfUser(u) : s.ORDER_NUMBER <= t.ORDER_NUMBER
        /\ \E l \in ORDER_PRODUCTS : l.ORDER_ID = t.ORDER_ID /\ l.PRODUCT_ID = i

\* C28: in every instacart__user_product_features row with a
\* last_purchase_order_number, orders_since_last_purchase is the user's
\* user_total_orders minus last_purchase_order_number, is not negative, and
\* is 0 exactly when the user's most recent order in the partition contains
\* the product.
C28_OrdersSinceLastPurchase ==
    pc = "built" /\ Built("instacart__user_product_features").status = "success" =>
        \A r \in Built("instacart__user_product_features").rows :
            r.last_purchase_order_number # NULL =>
                /\ \E f \in Built("instacart__user_features").rows :
                      /\ f.user_id = r.user_id
                      /\ r.orders_since_last_purchase =
                            Rat(f.user_total_orders - r.last_purchase_order_number, 1)
                /\ r.orders_since_last_purchase.d = 1
                /\ r.orders_since_last_purchase.n >= 0
                /\ r.orders_since_last_purchase.n = 0
                      <=> InMostRecentOrder(r.user_id, r.product_id)

\* A pair bought in the user's last order and a pair last bought before it.
C28_Witness ==
    /\ pc = "built"
    /\ \E r \in Built("instacart__user_product_features").rows :
          r.last_purchase_order_number # NULL /\ r.orders_since_last_purchase.n = 0
    /\ \E r \in Built("instacart__user_product_features").rows :
          r.last_purchase_order_number # NULL /\ r.orders_since_last_purchase.n > 0

\* ------------------------------------------------------------------ C29
\* No two lines of ORDER_PRODUCTS share (ORDER_ID, PRODUCT_ID), and every
\* REORDERED flag is 0 or 1.
UniqueLines ==
    /\ \A l, m \in ORDER_PRODUCTS :
          l.ORDER_ID = m.ORDER_ID /\ l.PRODUCT_ID = m.PRODUCT_ID => l = m
    /\ \A l \in ORDER_PRODUCTS : l.REORDERED \in {0, 1}

\* C29: over lines with unique (order_id, product_id) and is_reordered in
\* {0, 1}, every int_instacart__product_metrics row has product_orders >= 1
\* and 0 <= product_reorders <= product_orders, so product_reorder_rate is
\* in [0, 1] and its division never has a zero denominator.
C29_ReorderRateInUnitInterval ==
    pc = "built" /\ UniqueLines =>
        /\ Built("int_instacart__product_metrics").status = "success"
        /\ \A r \in Built("int_instacart__product_metrics").rows :
              /\ r.product_orders >= 1
              /\ 0 <= r.product_reorders
              /\ r.product_reorders <= r.product_orders
              /\ r.product_reorder_rate.d > 0
              /\ 0 <= r.product_reorder_rate.n
              /\ r.product_reorder_rate.n <= r.product_reorder_rate.d

\* A product ordered twice, once as a reorder, and a product only reordered.
C29_Witness ==
    /\ pc = "built"
    /\ UniqueLines
    /\ \E r \in Built("int_instacart__product_metrics").rows :
          \/ r.product_orders = 2 /\ r.product_reorders = 1
          \/ r.product_orders = 1 /\ r.product_reorders = 1

\* ------------------------------------------------------------------ C30
\* The sum of the values of a function over a finite domain.
RECURSIVE SumOver(_, _)
SumOver(f, D) ==
    IF D = {} THEN 0
    ELSE LET w == CHOOSE x \in D : TRUE IN f[w] + SumOver(f, D \ {w})

\* C30: over lines with unique (order_id, product_id), with hours in 0..23
\* and days in 0..6, the four day-part counts of a pair and its seven
\* day-of-week counts both add up to up_orders.
C30_BucketsPartitionPurchases ==
    pc = "built" /\ UniqueLines
        /\ Built("instacart__user_product_features").status = "success" =>
        \A r \in Built("instacart__user_product_features").rows :
            /\ r.morning_purchases + r.midday_purchases
                 + r.evening_purchases + r.night_purchases = r.up_orders
            /\ SumOver(r.dow_purchases, DaysOfWeek) = r.up_orders

\* A pair bought in both orders, one of them placed at 20:00.
C30_Witness ==
    /\ pc = "built"
    /\ UniqueLines
    /\ \E t \in ORDERS : t.ORDER_HOUR_OF_DAY = 20
    /\ \E r \in Built("instacart__user_product_features").rows :
          r.up_orders = 2 /\ r.night_purchases = 1

\* ------------------------------------------------------------------ C21
\* Some line of the partition, as the raw tables are now, holds product i.
OrderedNow(i) == \E l \in PriorLines : l.PRODUCT_ID = i

HandlersOfKind(name, kind) ==
    {i \in DOMAIN loggers[name].handlers : loggers[name].handlers[i].kind = kind}

\* C26: after any sequence of setup_logger calls for a name, its logger has
\* exactly one console handler, and exactly one file handler if the most
\* recent call passed a log_file and none otherwise.
C26_HandlersNeverAccumulate ==
    \A name \in LoggerNames :
        last_call[name].called =>
            /\ Cardinality(HandlersOfKind(name, "StreamHandler")) = 1
            /\ Cardinality(HandlersOfKind(name, "FileHandler")) =
                  (IF Truthy(last_call[name].log_file) THEN 1 ELSE 0)
            /\ \A i \in HandlersOfKind(name, "FileHandler") :
                  loggers[name].handlers[i].target = last_call[name].log_file

\* The module's logger was set up again after its import, without a
\* log_file, and another logger was set up with one.
C26_Witness ==
    /\ last_call["snowflake_feature_store"].level = "DEBUG"
    /\ ~ Truthy(last_call["snowflake_feature_store"].log_file)
    /\ Len(loggers["snowflake_feature_store"].handlers) = 1
    /\ last_call["instacart_loader"].called
    /\ Truthy(last_call["instacart_loader"].log_file)
    /\ Len(loggers["instacart_loader"].handlers) = 2

\* ------------------------------------------------------------------ C27
\* C27: load_data is idempotent on the raw store: after one or more runs on
\* the same CSV files every raw table holds the rows one run on an empty
\* schema leaves, and ORDER_PRODUCTS holds each line of the prior and train
\* files exactly once.
C27_LoadDataIdempotent ==
    load_runs >= 1 =>
        /\ RAW_TABLES = load_data(EmptySchema, csv_files)
        /\ \A l \in csv_files["order_products__prior.csv"]
                     \cup csv_files["order_products__train.csv"] :
              CopiesIn(l, RAW_TABLES["ORDER_PRODUCTS"]) = 1

====
